---- MODULE Spec2Model ----
(***************************************************************************)
(* Bananas Python SDK: the Redis queue store (bananas/queue.py), the       *)
(* Redis result store (bananas/result_backend.py) and the blocking         *)
(* wait-for-result protocol, modelled as state machines over one shared    *)
(* store.                                                                  *)
(*                                                                         *)
(* Time is counted in ticks of one poll interval (100 ms).  A store call   *)
(* is one atomic step.  A client may stop (crash) between two store calls. *)
(***************************************************************************)
EXTENDS Integers, Sequences, FiniteSets, TLC

\* ------------------------------------------------------------------ bounds
MaxJobs == 2          \* job ids 1..MaxJobs
MaxDue == 2           \* due times 1..MaxDue (epoch seconds, abstract)

JobIds == 1..MaxJobs
DueTimes == 1..MaxDue
\* Two concurrent callers of the queue store, each making one call.
QClients == {"c1", "c2"}

\* ------------------------------------------------------ models.py: enums
\* JobStatus string tags
JobStatus == {"pending", "processing", "completed", "failed", "scheduled"}

\* JobPriority string tags
JobPriority == {"high", "normal", "low"}

\* Python None, and the absence of a key, member or field.  An optional value
\* is the empty tuple (absent) or a one-element tuple holding the value.
None == <<>>

Some(v) == <<v>>

Opt(S) == {None} \cup {Some(x) : x \in S}

\* Names of operations and outcomes, where a call has none yet
NoCall == "none"

\* Outcome of a call: a returned value (None or an object) or a raised error.
Outcome(kind, val) == [kind |-> kind, val |-> val]

NoOutcome == Outcome(NoCall, None)

\* ---------------------------------------------------- models.py: Job codec
\* Job objects handed to the queue store.  Only the fields the store reads
\* (id, priority, scheduled_for) and the status of the record vary here.
\* Payloads are JSON values (spec: null, bool, number, string, list, map with
\* string keys), kept with what they spell: an empty map, a nested one, one
\* with non-ASCII text.  The queue store never looks into a payload, so the
\* jobs handed to it all carry the same one.
Payload == <<"dict", "{key: value}">>

Payloads == {<<"dict", "{}">>, <<"dict", "{a: {b: [1, null]}}">>, <<"dict", "{text: h\\u00e9llo}">>}

Jobs == [id : JobIds, priority : JobPriority, status : {"pending", "scheduled"},
         scheduled_for : Opt(DueTimes), payload : {Payload}]

\* Job.to_dict / Job.to_json: scheduled_for is emitted only when set.
JobToDict(job) ==
    IF job.scheduled_for # None
    THEN [id |-> job.id, priority |-> job.priority, status |-> job.status,
          payload |-> job.payload, scheduled_for |-> job.scheduled_for[1]]
    ELSE [id |-> job.id, priority |-> job.priority, status |-> job.status,
          payload |-> job.payload]

\* Job.from_dict / Job.from_json: an absent scheduled_for decodes to None.
JobFromDict(data) ==
    [id |-> data.id, priority |-> data.priority, status |-> data.status,
     payload |-> data.payload,
     scheduled_for |-> IF "scheduled_for" \in DOMAIN data
                       THEN Some(data.scheduled_for) ELSE None]

\* datetime.timestamp(): the due time as Unix epoch seconds
Timestamp(due) == due[1]

\* ------------------------------------------------------------ store state
VARIABLES
    jobs,        \* {prefix}:job:{id}     -> Some(stored encoding), or None
    queues,      \* {prefix}:queue:{prio} -> list of job ids, head first
    scheduled,   \* {prefix}:queue:scheduled: id -> Some(score), or None
    cpc,         \* queue client: position inside enqueue / enqueue_scheduled
    cjob,        \* queue client: the Job argument of its current/last call
    cop,         \* queue client: the operation of its current/last call
    cout,        \* queue client: outcome of its last call
    ccalls,      \* queue client: store calls issued by its current/last call
    jout,        \* reader: <<Some(id), outcome>> of its last get_job call
    jexpire      \* {prefix}:job:{id}     -> Some(seconds to live), or None

VARIABLES
    fin,         \* codec / key builder: the argument of the last call, or None
    fout,        \* codec / key builder: the value the last call returned, or None
    kpc,         \* Client instance: position in its life (construction, use, with block)
    qconn,       \* Client instance: connection of its RedisQueue
    rconn,       \* Client instance: connection of its RedisResultBackend
    kout,        \* Client instance: outcome of its last constructor / close / with exit
    kcloses      \* Client instance: close() calls made so far

xvars == <<fin, fout, kpc, qconn, rconn, kout, kcloses>>

qvars == <<jobs, queues, scheduled, cpc, cjob, cop, cout, ccalls, jout, jexpire, xvars>>

VARIABLES
    now,          \* the clock, in ticks
    success_ttl,  \* RedisResultBackend.success_ttl, seconds
    failure_ttl,  \* RedisResultBackend.failure_ttl, seconds
    results,      \* {prefix}:result:{id} -> Some(hash: field -> Some(value) or None), or None
    expiry,       \* {prefix}:result:{id} -> Some(tick at which the key expires), or None
    inbox,        \* waiter's pub/sub connection: events received and not yet read
    wsub,         \* waiter's pub/sub connection: Some(channel id) while subscribed
    spc,          \* writer: position inside set_result
    srec,         \* writer: the JobResult argument of its call
    sout,         \* writer: outcome of its call
    sendAt,       \* writer: the tick at which its call returned
    lastSet,      \* history: id -> Some(record last committed by set_result, tick)
    foreign,      \* history: another producer has written a result hash
    wpc,          \* waiter: position inside wait_for_result
    wid,          \* waiter: job_id argument
    wtimeout,     \* waiter: timeout argument, ticks
    wcall,        \* waiter: the tick at which the call started
    wstart,       \* waiter: start_time
    wrecv,        \* waiter: the tick at which the current get_message started
    wout,         \* waiter: outcome of the call
    wend,         \* waiter: the tick at which the call ended
    wfail,        \* history: a store call of this wait failed
    rout          \* reader: outcome of its last get_result call

svars == <<now, success_ttl, failure_ttl, results, expiry, inbox, wsub,
           spc, srec, sout, sendAt, lastSet, foreign>>

wvars == <<wpc, wid, wtimeout, wcall, wstart, wrecv, wout, wend, wfail>>

rvars == <<svars, wvars, rout>>

vars == <<qvars, rvars>>

\* Client instances whose construction and release are followed.
Clients == {"k1", "k2"}

\* No codec call made yet, no Client constructed yet.
XInit ==
    /\ fin = None
    /\ fout = None
    /\ kpc = [k \in Clients |-> "none"]
    /\ qconn = [k \in Clients |-> "none"]
    /\ rconn = [k \in Clients |-> "none"]
    /\ kout = [k \in Clients |-> NoCall]
    /\ kcloses = [k \in Clients |-> 0]

QInit ==
    /\ jobs = [i \in JobIds |-> None]
    /\ queues = [p \in JobPriority |-> <<>>]
    /\ scheduled = [i \in JobIds |-> None]
    /\ cpc = [c \in QClients |-> "idle"]
    /\ cjob = [c \in QClients |-> None]
    /\ cop = [c \in QClients |-> NoCall]
    /\ cout = [c \in QClients |-> NoCall]
    /\ ccalls = [c \in QClients |-> 0]
    /\ jout = <<None, NoOutcome>>
    /\ jexpire = [i \in JobIds |-> None]
    /\ XInit

\* ----------------------------------------------------- queue.py: enqueue
\* A call starts: a client that has not called yet, its arguments recorded.
QCall(c, op, job) ==
    /\ cpc[c] = "idle"
    /\ cop' = [cop EXCEPT ![c] = op]
    /\ cjob' = [cjob EXCEPT ![c] = Some(job)]

\* A call ends with its outcome.
QReturn(c, outcome) ==
    /\ cpc' = [cpc EXCEPT ![c] = "done"]
    /\ cout' = [cout EXCEPT ![c] = outcome]

\* A bug variant of EnqueueSet: the record is not written under the job key.
EnqueueSetNoRecord(c, job) ==
    /\ QCall(c, "enqueue", job)
    /\ cpc' = [cpc EXCEPT ![c] = "enq_push"]
    /\ cout' = [cout EXCEPT ![c] = NoCall]
    /\ ccalls' = [ccalls EXCEPT ![c] = 1]
    /\ UNCHANGED <<jobs, queues, scheduled>>
    /\ UNCHANGED <<jout, jexpire, xvars, rvars>>

\* enqueue, first store call: SET job key <- job.to_json(), without an expiry
\* (a SET discards the time to live the key had)
EnqueueSet(c, job) ==
    /\ QCall(c, "enqueue", job)
    /\ jobs' = [jobs EXCEPT ![job.id] = Some(JobToDict(job))]
    /\ cpc' = [cpc EXCEPT ![c] = "enq_push"]
    /\ cout' = [cout EXCEPT ![c] = NoCall]
    /\ ccalls' = [ccalls EXCEPT ![c] = 1]
    /\ UNCHANGED <<queues, scheduled>>
    /\ jexpire' = [jexpire EXCEPT ![job.id] = None]
    /\ UNCHANGED <<jout, xvars, rvars>>

\* A bug variant of EnqueueSetFail: the failure of the SET is swallowed and
\* the call goes on to the push.
EnqueueSetFailPushes(c, job) ==
    /\ QCall(c, "enqueue", job)
    /\ cpc' = [cpc EXCEPT ![c] = "enq_push"]
    /\ cout' = [cout EXCEPT ![c] = NoCall]
    /\ ccalls' = [ccalls EXCEPT ![c] = 1]
    /\ UNCHANGED <<jobs, queues, scheduled>>
    /\ UNCHANGED <<jout, jexpire, xvars, rvars>>

\* enqueue, first store call fails: redis.RedisError -> ConnectionError
EnqueueSetFail(c, job) ==
    /\ QCall(c, "enqueue", job)
    /\ ccalls' = [ccalls EXCEPT ![c] = 1]
    /\ QReturn(c, "ConnectionError")
    /\ UNCHANGED <<jobs, queues, scheduled>>
    /\ UNCHANGED <<jout, jexpire, xvars, rvars>>

\* A bug variant of EnqueuePush: RPUSH, the id goes to the tail.
EnqueuePushTail(c) ==
    /\ cpc[c] = "enq_push"
    /\ queues' = [queues EXCEPT ![cjob[c][1].priority] = Append(@, cjob[c][1].id)]
    /\ ccalls' = [ccalls EXCEPT ![c] = @ + 1]
    /\ QReturn(c, "ok")
    /\ UNCHANGED <<jobs, scheduled, cjob, cop>>
    /\ UNCHANGED <<jout, jexpire, xvars, rvars>>

\* enqueue, second store call: LPUSH queue key <- job.id (pushes at the head)
EnqueuePush(c) ==
    /\ cpc[c] = "enq_push"
    /\ queues' = [queues EXCEPT ![cjob[c][1].priority] = <<cjob[c][1].id>> \o @]
    /\ ccalls' = [ccalls EXCEPT ![c] = @ + 1]
    /\ QReturn(c, "ok")
    /\ UNCHANGED <<jobs, scheduled, cjob, cop>>
    /\ UNCHANGED <<jout, jexpire, xvars, rvars>>

\* enqueue, second store call fails
EnqueuePushFail(c) ==
    /\ cpc[c] = "enq_push"
    /\ ccalls' = [ccalls EXCEPT ![c] = @ + 1]
    /\ QReturn(c, "ConnectionError")
    /\ UNCHANGED <<jobs, queues, scheduled, cjob, cop>>
    /\ UNCHANGED <<jout, jexpire, xvars, rvars>>

\* ------------------------------------------- queue.py: enqueue_scheduled
\* A bug variant of EnqueueScheduledInvalid: the record is written before
\* scheduled_for is validated.
EnqueueScheduledLateCheck(c, job) ==
    /\ QCall(c, "enqueue_scheduled", job)
    /\ job.scheduled_for = None
    /\ jobs' = [jobs EXCEPT ![job.id] = Some(JobToDict(job))]
    /\ ccalls' = [ccalls EXCEPT ![c] = 1]
    /\ QReturn(c, "ValueError")
    /\ UNCHANGED <<queues, scheduled>>
    /\ jexpire' = [jexpire EXCEPT ![job.id] = None]
    /\ UNCHANGED <<jout, xvars, rvars>>

\* enqueue_scheduled with scheduled_for unset: ValueError, no store call
EnqueueScheduledInvalid(c, job) ==
    /\ QCall(c, "enqueue_scheduled", job)
    /\ job.scheduled_for = None
    /\ ccalls' = [ccalls EXCEPT ![c] = 0]
    /\ QReturn(c, "ValueError")
    /\ UNCHANGED <<jobs, queues, scheduled>>
    /\ UNCHANGED <<jout, jexpire, xvars, rvars>>

\* enqueue_scheduled, first store call: SET job key <- job.to_json()
EnqueueScheduledSet(c, job) ==
    /\ QCall(c, "enqueue_scheduled", job)
    /\ job.scheduled_for # None
    /\ jobs' = [jobs EXCEPT ![job.id] = Some(JobToDict(job))]
    /\ cpc' = [cpc EXCEPT ![c] = "sched_zadd"]
    /\ cout' = [cout EXCEPT ![c] = NoCall]
    /\ ccalls' = [ccalls EXCEPT ![c] = 1]
    /\ UNCHANGED <<queues, scheduled>>
    /\ jexpire' = [jexpire EXCEPT ![job.id] = None]
    /\ UNCHANGED <<jout, xvars, rvars>>

\* enqueue_scheduled, first store call fails
EnqueueScheduledSetFail(c, job) ==
    /\ QCall(c, "enqueue_scheduled", job)
    /\ job.scheduled_for # None
    /\ ccalls' = [ccalls EXCEPT ![c] = 1]
    /\ QReturn(c, "ConnectionError")
    /\ UNCHANGED <<jobs, queues, scheduled>>
    /\ UNCHANGED <<jout, jexpire, xvars, rvars>>

\* A bug variant of EnqueueScheduledZadd: ZADD NX, a member keeps its score.
EnqueueScheduledZaddNX(c) ==
    /\ cpc[c] = "sched_zadd"
    /\ scheduled' = [scheduled EXCEPT ![cjob[c][1].id] =
                        IF @ = None THEN Some(Timestamp(cjob[c][1].scheduled_for)) ELSE @]
    /\ ccalls' = [ccalls EXCEPT ![c] = @ + 1]
    /\ QReturn(c, "ok")
    /\ UNCHANGED <<jobs, queues, cjob, cop>>
    /\ UNCHANGED <<jout, jexpire, xvars, rvars>>

\* A bug variant of EnqueueScheduledZadd: the id is also pushed on the list
\* of its priority.
EnqueueScheduledZaddAndPush(c) ==
    /\ cpc[c] = "sched_zadd"
    /\ scheduled' = [scheduled EXCEPT ![cjob[c][1].id] = Some(Timestamp(cjob[c][1].scheduled_for))]
    /\ queues' = [queues EXCEPT ![cjob[c][1].priority] = <<cjob[c][1].id>> \o @]
    /\ ccalls' = [ccalls EXCEPT ![c] = @ + 1]
    /\ QReturn(c, "ok")
    /\ UNCHANGED <<jobs, cjob, cop>>
    /\ UNCHANGED <<jout, jexpire, xvars, rvars>>

\* enqueue_scheduled, second store call: ZADD scheduled key {id: timestamp}
EnqueueScheduledZadd(c) ==
    /\ cpc[c] = "sched_zadd"
    /\ scheduled' = [scheduled EXCEPT ![cjob[c][1].id] = Some(Timestamp(cjob[c][1].scheduled_for))]
    /\ ccalls' = [ccalls EXCEPT ![c] = @ + 1]
    /\ QReturn(c, "ok")
    /\ UNCHANGED <<jobs, queues, cjob, cop>>
    /\ UNCHANGED <<jout, jexpire, xvars, rvars>>

\* enqueue_scheduled, second store call fails
EnqueueScheduledZaddFail(c) ==
    /\ cpc[c] = "sched_zadd"
    /\ ccalls' = [ccalls EXCEPT ![c] = @ + 1]
    /\ QReturn(c, "ConnectionError")
    /\ UNCHANGED <<jobs, queues, scheduled, cjob, cop>>
    /\ UNCHANGED <<jout, jexpire, xvars, rvars>>

\* The calling process stops between the two writes and never resumes.
QCrash(c) ==
    /\ cpc[c] \in {"enq_push", "sched_zadd"}
    /\ cpc' = [cpc EXCEPT ![c] = "crashed"]
    /\ UNCHANGED <<jobs, queues, scheduled, cjob, cop, cout, ccalls>>
    /\ UNCHANGED <<jout, jexpire, xvars, rvars>>

\* ------------------------------------------------- client.py: submit_job
\* Job(name, payload, priority): status PENDING, no scheduled_for.
NewJob(id, p) ==
    [id |-> id, priority |-> p, status |-> "pending", scheduled_for |-> None,
     payload |-> Payload]

\* str(uuid4()): an id that no record and no other call carries.
FreshId(id) ==
    /\ jobs[id] = None
    /\ \A d \in QClients : cjob[d] # None => cjob[d][1].id # id

\* A bug variant of SubmitJob: the record is written with the default priority.
SubmitJobNormalPriority(c, id, p) ==
    /\ QCall(c, "submit_job", NewJob(id, p))
    /\ FreshId(id)
    /\ jobs' = [jobs EXCEPT ![id] = Some(JobToDict(NewJob(id, "normal")))]
    /\ cpc' = [cpc EXCEPT ![c] = "enq_push"]
    /\ cout' = [cout EXCEPT ![c] = NoCall]
    /\ ccalls' = [ccalls EXCEPT ![c] = 1]
    /\ UNCHANGED <<queues, scheduled>>
    /\ jexpire' = [jexpire EXCEPT ![id] = None]
    /\ UNCHANGED <<jout, xvars, rvars>>

\* submit_job: builds the Job and calls enqueue, whose first store call is the
\* SET of the record; the LPUSH follows as in enqueue.
SubmitJob(c, id, p) ==
    /\ QCall(c, "submit_job", NewJob(id, p))
    /\ FreshId(id)
    /\ jobs' = [jobs EXCEPT ![id] = Some(JobToDict(NewJob(id, p)))]
    /\ cpc' = [cpc EXCEPT ![c] = "enq_push"]
    /\ cout' = [cout EXCEPT ![c] = NoCall]
    /\ ccalls' = [ccalls EXCEPT ![c] = 1]
    /\ UNCHANGED <<queues, scheduled>>
    /\ jexpire' = [jexpire EXCEPT ![id] = None]
    /\ UNCHANGED <<jout, xvars, rvars>>

\* submit_job_with_route: submit_job with a routing key, which the stores do
\* not read.
SubmitJobWithRoute(c, id, p) ==
    /\ QCall(c, "submit_job_with_route", NewJob(id, p))
    /\ FreshId(id)
    /\ jobs' = [jobs EXCEPT ![id] = Some(JobToDict(NewJob(id, p)))]
    /\ cpc' = [cpc EXCEPT ![c] = "enq_push"]
    /\ cout' = [cout EXCEPT ![c] = NoCall]
    /\ ccalls' = [ccalls EXCEPT ![c] = 1]
    /\ UNCHANGED <<queues, scheduled>>
    /\ jexpire' = [jexpire EXCEPT ![id] = None]
    /\ UNCHANGED <<jout, xvars, rvars>>

\* submit_job, the SET failing: the ConnectionError of enqueue propagates.
SubmitJobFail(c, id, p) ==
    /\ QCall(c, "submit_job", NewJob(id, p))
    /\ FreshId(id)
    /\ ccalls' = [ccalls EXCEPT ![c] = 1]
    /\ QReturn(c, "ConnectionError")
    /\ UNCHANGED <<jobs, queues, scheduled>>
    /\ UNCHANGED <<jout, jexpire, xvars, rvars>>

\* submit_and_wait, its enqueue: the Job is built as in submit_job; the
\* wait_for_result that follows the push touches no job key.
SubmitAndWait(c, id, p) ==
    /\ QCall(c, "submit_and_wait", NewJob(id, p))
    /\ FreshId(id)
    /\ jobs' = [jobs EXCEPT ![id] = Some(JobToDict(NewJob(id, p)))]
    /\ cpc' = [cpc EXCEPT ![c] = "enq_push"]
    /\ cout' = [cout EXCEPT ![c] = NoCall]
    /\ ccalls' = [ccalls EXCEPT ![c] = 1]
    /\ UNCHANGED <<queues, scheduled>>
    /\ jexpire' = [jexpire EXCEPT ![id] = None]
    /\ UNCHANGED <<jout, xvars, rvars>>

\* ---------------------------------------- client.py: submit_job_scheduled
\* Job(name, payload, priority, status=SCHEDULED, scheduled_for=due)
NewScheduledJob(id, p, due) ==
    [id |-> id, priority |-> p, status |-> "scheduled", scheduled_for |-> due,
     payload |-> Payload]

\* submit_job_scheduled with scheduled_for None: the ValueError of
\* enqueue_scheduled propagates, no store call is made.
SubmitJobScheduledInvalid(c, id, p) ==
    /\ QCall(c, "submit_job_scheduled", NewScheduledJob(id, p, None))
    /\ FreshId(id)
    /\ ccalls' = [ccalls EXCEPT ![c] = 0]
    /\ QReturn(c, "ValueError")
    /\ UNCHANGED <<jobs, queues, scheduled>>
    /\ UNCHANGED <<jout, jexpire, xvars, rvars>>

\* submit_job_scheduled: builds the Job and calls enqueue_scheduled, whose
\* first store call is the SET of the record; the ZADD follows.
SubmitJobScheduled(c, id, p, due) ==
    /\ QCall(c, "submit_job_scheduled", NewScheduledJob(id, p, Some(due)))
    /\ FreshId(id)
    /\ jobs' = [jobs EXCEPT ![id] = Some(JobToDict(NewScheduledJob(id, p, Some(due))))]
    /\ cpc' = [cpc EXCEPT ![c] = "sched_zadd"]
    /\ cout' = [cout EXCEPT ![c] = NoCall]
    /\ ccalls' = [ccalls EXCEPT ![c] = 1]
    /\ UNCHANGED <<queues, scheduled>>
    /\ jexpire' = [jexpire EXCEPT ![id] = None]
    /\ UNCHANGED <<jout, xvars, rvars>>

\* submit_job_scheduled, the SET failing: the ConnectionError propagates.
SubmitJobScheduledFail(c, id, p, due) ==
    /\ QCall(c, "submit_job_scheduled", NewScheduledJob(id, p, Some(due)))
    /\ FreshId(id)
    /\ ccalls' = [ccalls EXCEPT ![c] = 1]
    /\ QReturn(c, "ConnectionError")
    /\ UNCHANGED <<jobs, queues, scheduled>>
    /\ UNCHANGED <<jout, jexpire, xvars, rvars>>

\* ------------------------------------------------------ queue.py: get_job
\* Values under a job key that Job.from_json rejects: bytes that are no JSON
\* document, a document without a required field, an unknown status tag, an
\* unknown priority tag.
CorruptJobs(id) ==
    { [raw |-> "not json"],
      [id |-> id, priority |-> "normal"],
      [id |-> id, priority |-> "normal", status |-> "done"],
      [id |-> id, priority |-> "urgent", status |-> "pending"] }

\* Job.from_json succeeds: a document with the required fields, status and
\* priority being tags of their enumerations.
JobDecodes(data) ==
    /\ {"id", "priority", "status", "payload"} \subseteq DOMAIN data
    /\ data.status \in JobStatus
    /\ data.priority \in JobPriority

\* A bug variant of GetJob: an absent key raises JobNotFoundError.
GetJobRaisesNotFound(id) ==
    IF jobs[id] = None \/ ~JobDecodes(jobs[id][1]) THEN Outcome("JobNotFoundError", None)
    ELSE Outcome("return", Some(JobFromDict(jobs[id][1])))

\* A bug variant of GetJob: an undecodable value is reported as not found.
GetJobSwallowsDecodeError(id) ==
    IF jobs[id] = None \/ ~JobDecodes(jobs[id][1]) THEN Outcome("return", None)
    ELSE Outcome("return", Some(JobFromDict(jobs[id][1])))

\* get_job without a store failure: GET job key; None when the key is absent,
\* JobNotFoundError when decoding fails, else the Job.
GetJob(id) ==
    IF jobs[id] = None THEN Outcome("return", None)
    ELSE IF ~JobDecodes(jobs[id][1]) THEN Outcome("JobNotFoundError", None)
    ELSE Outcome("return", Some(JobFromDict(jobs[id][1])))

\* GET fails: ConnectionError
GetJobFailed == Outcome("ConnectionError", None)

\* A bug variant of GetJobCall: the key is read with GETDEL.
GetJobCallDeletes(id) ==
    /\ jout' = <<Some(id), GetJob(id)>>
    /\ jobs' = [jobs EXCEPT ![id] = None]
    /\ UNCHANGED <<queues, scheduled, cpc, cjob, cop, cout, ccalls, jexpire, xvars, rvars>>

\* A caller's get_job.
GetJobCall(id) ==
    /\ jout' = <<Some(id), GetJob(id)>>
    /\ UNCHANGED <<jobs, queues, scheduled, cpc, cjob, cop, cout, ccalls, jexpire, xvars, rvars>>

\* A caller's get_job, the store call failing.
GetJobCallFail(id) ==
    /\ jout' = <<Some(id), GetJobFailed>>
    /\ UNCHANGED <<jobs, queues, scheduled, cpc, cjob, cop, cout, ccalls, jexpire, xvars, rvars>>

\* Another process sharing the store leaves an undecodable value under a job key.
ForeignSet(id, v) ==
    /\ jobs' = [jobs EXCEPT ![id] = Some(v)]
    /\ jexpire' = [jexpire EXCEPT ![id] = None]
    /\ UNCHANGED <<queues, scheduled, cpc, cjob, cop, cout, ccalls, jout, xvars, rvars>>

QStep ==
    \/ \E c \in QClients, job \in Jobs : EnqueueSet(c, job)
    \/ \E c \in QClients, job \in Jobs : EnqueueSetFail(c, job)
    \/ \E c \in QClients : EnqueuePush(c)
    \/ \E c \in QClients : EnqueuePushFail(c)
    \/ \E c \in QClients, job \in Jobs : EnqueueScheduledInvalid(c, job)
    \/ \E c \in QClients, job \in Jobs : EnqueueScheduledSet(c, job)
    \/ \E c \in QClients, job \in Jobs : EnqueueScheduledSetFail(c, job)
    \/ \E c \in QClients : EnqueueScheduledZadd(c)
    \/ \E c \in QClients : EnqueueScheduledZaddFail(c)
    \/ \E c \in QClients : QCrash(c)
    \/ \E c \in QClients, id \in JobIds, p \in JobPriority : SubmitJob(c, id, p)
    \/ \E c \in QClients, id \in JobIds, p \in JobPriority : SubmitJobFail(c, id, p)

\* ======================================================================
\* Result store (bananas/result_backend.py)
\* ======================================================================
\* Time is counted in ticks of one poll interval.
PollInterval == 1          \* poll_interval = 0.1 s, the tick
GracePeriod == 5           \* 0.5 s, in ticks
TicksPerSecond == 10       \* one second, in ticks
DefaultSuccessTTL == 3600  \* timedelta(hours=1), seconds
DefaultFailureTTL == 86400 \* timedelta(hours=24), seconds

\* bounds
MaxTime == 12              \* the clock runs from 0 to MaxTime ticks
CustomSuccessTTL == 1      \* a success TTL given at construction, seconds
CustomFailureTTL == 2      \* a failure TTL given at construction, seconds
MaxTimeout == 7            \* longest wait timeout, ticks

\* Job ids of the result store, its writers (workers calling set_result) and
\* the callers of wait_for_result.
ResultIds == {"a", "b"}
Writers == {"s1", "s2"}
Waiters == {"w1"}

\* ------------------------------------------------- models.py: JobResult
\* Result payloads: the empty dict (falsy) and a non-empty dict.
EmptyDict == <<"dict", "{}">>
Dicts == {EmptyDict, <<"dict", "{output: success}">>}

\* An abstract completion timestamp.
DoneTimes == {"2025-01-15T10:30:00+00:00"}

Durations == {0, 1500}

\* JobResult objects handed to set_result: a COMPLETED record with or without
\* a result, a FAILED record with an error, a record of a non-terminal status.
ResultRecords ==
    [job_id : ResultIds, status : {"completed"}, result : Opt(Dicts),
     error : {""}, completed_at : DoneTimes, duration_ms : Durations]
    \cup
    [job_id : ResultIds, status : {"failed", "processing"}, result : {None},
     error : {"boom"}, completed_at : DoneTimes, duration_ms : Durations]

\* JobResult.is_success
IsSuccess(r) == r.status = "completed"

\* JobResult.is_failed
IsFailed(r) == r.status = "failed"

\* Python truthiness of result.result: None and {} are falsy.
Truthy(result) == result # None /\ result[1] # EmptyDict

\* Strings are kept with what they spell: <<"json", v>> is the JSON text of
\* the value v (a dict or a string), <<"iso", t>> an ISO-8601 timestamp,
\* <<"dec", n>> a decimal numeral, <<"text", s>> any other text.
\* json.dumps / json.loads of a payload
JsonDumps(d) == <<"json", d>>

JsonLoads(x) == x[2]

\* json.loads raises JSONDecodeError on text that is no JSON document.
IsJson(x) == x[1] = "json"

\* datetime.isoformat / datetime.fromisoformat
IsoFormat(t) == <<"iso", t>>

FromIsoFormat(x) == x[2]

\* datetime.fromisoformat raises ValueError on any other text.
IsIso(x) == x[1] = "iso"

\* str(int) / int(str)
StrOfInt(n) == <<"dec", n>>

IntOfStr(x) == x[2]

\* int(str) raises ValueError on any other text, the empty string included.
IsDec(x) == x[1] = "dec"

\* The empty string, falsy in Python.
EmptyStr == <<"text", "">>

\* completed_at or datetime.now(timezone.utc): the time of the read.
DefaultedNow == "datetime.now()"

\* Fields of a result hash
HashFields == {"status", "completed_at", "duration_ms", "result", "error"}

\* RedisResultBackend.__init__: the TTLs are the defaults or those given.
TTLConfigs ==
    {<<DefaultSuccessTTL, DefaultFailureTTL>>, <<CustomSuccessTTL, CustomFailureTTL>>}

\* The state after construction, ws being the callers of wait_for_result.
RInitFor(cfg, ws) ==
    /\ now = 0
    /\ success_ttl = cfg[1]
    /\ failure_ttl = cfg[2]
    /\ results = [i \in ResultIds |-> None]
    /\ expiry = [i \in ResultIds |-> None]
    /\ inbox = [w \in ws |-> <<>>]
    /\ wsub = [w \in ws |-> None]
    /\ spc = [s \in Writers |-> "idle"]
    /\ srec = [s \in Writers |-> None]
    /\ sout = [s \in Writers |-> NoCall]
    /\ sendAt = [s \in Writers |-> None]
    /\ lastSet = [i \in ResultIds |-> None]
    /\ foreign = FALSE
    /\ wpc = [w \in ws |-> "idle"]
    /\ wid = [w \in ws |-> None]
    /\ wtimeout = [w \in ws |-> 0]
    /\ wcall = [w \in ws |-> None]
    /\ wstart = [w \in ws |-> None]
    /\ wrecv = [w \in ws |-> None]
    /\ wout = [w \in ws |-> NoOutcome]
    /\ wend = [w \in ws |-> None]
    /\ wfail = [w \in ws |-> FALSE]
    /\ rout = <<NoCall, NoOutcome>>

RInitWith(cfg) == RInitFor(cfg, Waiters)

RInit == \E cfg \in TTLConfigs : RInitWith(cfg)

\* ------------------------------------------- result_backend.py: set_result
\* A bug variant of ResultData: the result field is written whenever the
\* record's result is not None, the empty dict included.
ResultDataResultIfSet(r) ==
    [status |-> Some(r.status),
     completed_at |-> Some(IsoFormat(r.completed_at)),
     duration_ms |-> Some(StrOfInt(r.duration_ms)),
     result |-> IF r.result # None THEN Some(JsonDumps(r.result[1])) ELSE None,
     error |-> IF r.error # "" THEN Some(r.error) ELSE None]

\* result_data: the mapping given to HSET; result and error only when truthy.
ResultData(r) ==
    [status |-> Some(r.status),
     completed_at |-> Some(IsoFormat(r.completed_at)),
     duration_ms |-> Some(StrOfInt(r.duration_ms)),
     result |-> IF Truthy(r.result) THEN Some(JsonDumps(r.result[1])) ELSE None,
     error |-> IF r.error # "" THEN Some(r.error) ELSE None]

\* Redis HSET key mapping: sets the given fields, keeps the hash's other fields.
HSet(old, mapping) ==
    Some([f \in HashFields |->
            IF mapping[f] # None THEN mapping[f]
            ELSE IF old = None THEN None ELSE old[1][f]])

\* A bug variant of ExpireSeconds: the failure TTL only for FAILED records.
ExpireSecondsByFailed(r) == IF IsFailed(r) THEN failure_ttl ELSE success_ttl

\* ttl = success_ttl if result.is_success() else failure_ttl; int(total_seconds())
ExpireSeconds(r) == IF IsSuccess(r) THEN success_ttl ELSE failure_ttl

\* A bug variant of ExecBatch: the pipeline is built and never executed.
ExecBatchNotExecuted(r) ==
    UNCHANGED <<results, expiry>>

\* A bug variant of ExecBatch: HSET is sent without the EXPIRE.
ExecBatchHSetOnly(r) ==
    /\ results' = [results EXCEPT ![r.job_id] = HSet(@, ResultData(r))]
    /\ UNCHANGED expiry

\* A bug variant of ExecBatch: the result key is built without the job id,
\* so the batch writes the hash every id reads.
ExecBatchSharedKey(r) ==
    /\ results' = [i \in ResultIds |-> HSet(results[i], ResultData(r))]
    /\ expiry' = [i \in ResultIds |-> Some(now + ExpireSeconds(r) * TicksPerSecond)]

\* pipe.hset; pipe.expire; pipe.execute(): one MULTI/EXEC transaction.
ExecBatch(r) ==
    /\ results' = [results EXCEPT ![r.job_id] = HSet(@, ResultData(r))]
    /\ expiry' = [expiry EXCEPT ![r.job_id] =
                     Some(now + ExpireSeconds(r) * TicksPerSecond)]

\* set_result up to pipe.execute(): the batch commits.
SetResultExec(s, r) ==
    /\ spc[s] = "idle"
    /\ ExecBatch(r)
    /\ lastSet' = [lastSet EXCEPT ![r.job_id] = Some([rec |-> r, at |-> now])]
    /\ spc' = [spc EXCEPT ![s] = "publish"]
    /\ srec' = [srec EXCEPT ![s] = Some(r)]
    /\ UNCHANGED <<now, success_ttl, failure_ttl, inbox, wsub, sout, sendAt, foreign>>
    /\ UNCHANGED <<wvars, rout, qvars>>

\* pipe.execute() fails: nothing is applied, ConnectionError, no publish.
SetResultExecFail(s, r) ==
    /\ spc[s] = "idle"
    /\ spc' = [spc EXCEPT ![s] = "raised_execute"]
    /\ srec' = [srec EXCEPT ![s] = Some(r)]
    /\ sout' = [sout EXCEPT ![s] = "ConnectionError"]
    /\ sendAt' = [sendAt EXCEPT ![s] = Some(now)]
    /\ UNCHANGED <<now, success_ttl, failure_ttl, results, expiry, inbox, wsub, lastSet, foreign>>
    /\ UNCHANGED <<wvars, rout, qvars>>

\* A bug variant of Publish: the message goes to every subscribed connection,
\* whatever its channel.
PublishToAll(id, data) ==
    inbox' = [w \in DOMAIN inbox |->
                IF wsub[w] # None
                THEN Append(inbox[w], [type |-> "message", data |-> data])
                ELSE inbox[w]]

\* Redis PUBLISH: the message reaches the connections subscribed right now.
Publish(id, data) ==
    inbox' = [w \in DOMAIN inbox |->
                IF wsub[w] = Some(id)
                THEN Append(inbox[w], [type |-> "message", data |-> data])
                ELSE inbox[w]]

\* set_result after the batch: PUBLISH status on the job's channel, return.
SetResultPublish(s) ==
    /\ spc[s] = "publish"
    /\ Publish(srec[s][1].job_id, srec[s][1].status)
    /\ spc' = [spc EXCEPT ![s] = "done"]
    /\ sout' = [sout EXCEPT ![s] = "ok"]
    /\ sendAt' = [sendAt EXCEPT ![s] = Some(now)]
    /\ UNCHANGED <<now, success_ttl, failure_ttl, results, expiry, wsub, srec, lastSet, foreign>>
    /\ UNCHANGED <<wvars, rout, qvars>>

\* A bug variant of SetResultPublishFail: the failed publish deletes the
\* hash that the batch wrote.
SetResultPublishFailRollsBack(s) ==
    /\ spc[s] = "publish"
    /\ spc' = [spc EXCEPT ![s] = "raised_publish"]
    /\ sout' = [sout EXCEPT ![s] = "ConnectionError"]
    /\ sendAt' = [sendAt EXCEPT ![s] = Some(now)]
    /\ results' = [results EXCEPT ![srec[s][1].job_id] = None]
    /\ expiry' = [expiry EXCEPT ![srec[s][1].job_id] = None]
    /\ UNCHANGED <<now, success_ttl, failure_ttl, inbox, wsub, srec, lastSet, foreign>>
    /\ UNCHANGED <<wvars, rout, qvars>>

\* PUBLISH fails: ConnectionError; the committed batch stays.
SetResultPublishFail(s) ==
    /\ spc[s] = "publish"
    /\ spc' = [spc EXCEPT ![s] = "raised_publish"]
    /\ sout' = [sout EXCEPT ![s] = "ConnectionError"]
    /\ sendAt' = [sendAt EXCEPT ![s] = Some(now)]
    /\ UNCHANGED <<now, success_ttl, failure_ttl, results, expiry, inbox, wsub, srec, lastSet, foreign>>
    /\ UNCHANGED <<wvars, rout, qvars>>

\* Another producer sharing the store writes a status tag this client does
\* not know into the result hash of id (once per behaviour).
ForeignHSet(id) ==
    /\ ~foreign
    /\ foreign' = TRUE
    /\ results' = [results EXCEPT ![id] =
                      HSet(@, [f \in HashFields |->
                                 IF f = "status" THEN Some("done") ELSE None])]
    /\ UNCHANGED <<now, success_ttl, failure_ttl, expiry, inbox, wsub,
                   spc, srec, sout, sendAt, lastSet>>
    /\ UNCHANGED <<wvars, rout, qvars>>

\* A result hash as a producer in another language writes it.
ForeignHash ==
    [status |-> Some("completed"),
     completed_at |-> Some(IsoFormat("2025-01-15T10:30:00+00:00")),
     duration_ms |-> Some(StrOfInt(1500)),
     result |-> Some(JsonDumps(<<"dict", "{output: success}">>)),
     error |-> None]

\* Hashes that from_dict rejects: no status, an unknown status tag, a
\* completed_at that is no timestamp, a duration_ms that is no numeral.
UndecodableHashes ==
    { [ForeignHash EXCEPT !.status = None],
      [ForeignHash EXCEPT !.status = Some("done")],
      [ForeignHash EXCEPT !.completed_at = Some(<<"text", "yesterday">>)],
      [ForeignHash EXCEPT !.duration_ms = Some(<<"text", "abc">>)],
      [ForeignHash EXCEPT !.duration_ms = Some(EmptyStr)] }

\* Hashes with an empty or absent completed_at, a result encoded twice, a
\* result that is no JSON document.
LooseHashes ==
    { [ForeignHash EXCEPT !.completed_at = Some(EmptyStr)],
      [ForeignHash EXCEPT !.completed_at = None],
      [ForeignHash EXCEPT !.result = Some(JsonDumps(JsonDumps(<<"dict", "{output: success}">>)))],
      [ForeignHash EXCEPT !.result = Some(<<"text", "plain text">>)] }

\* Another producer sharing the store writes the result hash of id (once per
\* behaviour), without an expiry.
ForeignHashWrite(id, h) ==
    /\ ~foreign
    /\ foreign' = TRUE
    /\ results' = [results EXCEPT ![id] = Some(h)]
    /\ UNCHANGED <<now, success_ttl, failure_ttl, expiry, inbox, wsub,
                   spc, srec, sout, sendAt, lastSet>>
    /\ UNCHANGED <<wvars, rout, qvars>>

\* ------------------------------------------- result_backend.py: get_result
\* A bug variant of DecodeResult: the stored text is returned undecoded.
DecodeResultRaw(x) == x

\* from_dict: a result that is a non-empty string is given to json.loads
\* once; text that is no JSON document is kept as it is.
DecodeResult(x) == IF x # EmptyStr /\ IsJson(x) THEN JsonLoads(x) ELSE x

\* from_dict: completed_at is parsed when present and non-empty; otherwise
\* the constructor puts the current time.
DecodeCompletedAt(f) ==
    IF f = None \/ f[1] = EmptyStr THEN DefaultedNow ELSE FromIsoFormat(f[1])

\* get_result: decoded_data.get("duration_ms", "0"), then int(...)
DecodeDuration(f) == IF f = None THEN 0 ELSE IntOfStr(f[1])

\* JobResult.from_dict on the decoded hash
ResultFromDict(id, h) ==
    [job_id |-> id,
     status |-> h.status[1],
     result |-> IF h.result # None THEN Some(DecodeResult(h.result[1])) ELSE None,
     error |-> IF h.error # None THEN h.error[1] ELSE "",
     completed_at |-> DecodeCompletedAt(h.completed_at),
     duration_ms |-> DecodeDuration(h.duration_ms)]

\* The hash decodes: status present and a JobStatus tag, completed_at absent,
\* empty or an ISO timestamp, duration_ms absent or a numeral.
Decodes(h) ==
    /\ h.status # None /\ h.status[1] \in JobStatus
    /\ h.completed_at # None /\ h.completed_at[1] # EmptyStr => IsIso(h.completed_at[1])
    /\ h.duration_ms # None => IsDec(h.duration_ms[1])

\* get_result without a store failure: HGETALL, None for an empty hash,
\* ResultNotFoundError when decoding fails, else the JobResult.
GetResult(id) ==
    IF results[id] = None THEN Outcome("return", None)
    ELSE IF ~Decodes(results[id][1]) THEN Outcome("ResultNotFoundError", None)
    ELSE Outcome("return", Some(ResultFromDict(id, results[id][1])))

\* HGETALL fails: ConnectionError
GetResultFailed == Outcome("ConnectionError", None)

\* A caller's get_result.
GetResultCall(id) ==
    /\ rout' = <<id, GetResult(id)>>
    /\ UNCHANGED <<svars, wvars, qvars>>

\* A caller's get_result, the store call failing.
GetResultCallFail(id) ==
    /\ rout' = <<id, GetResultFailed>>
    /\ UNCHANGED <<svars, wvars, qvars>>

\* ------------------------------------------------------------- the clock
\* A waiter that is not blocked in get_message runs on without delay; a
\* blocked get_message returns when an event is there or its timeout is up.
Blocked(w) ==
    \/ wpc[w] \in {"idle", "done"}
    \/ wpc[w] = "recv" /\ inbox[w] = <<>> /\ now < wrecv[w][1] + PollInterval

\* A bug variant of Expired: keys are kept for ever.
ExpiredNever(id, t) == FALSE

\* Redis key expiry: a key whose expiry tick has come is gone.
Expired(id, t) == expiry[id] # None /\ expiry[id][1] <= t

\* The passing of time can still be observed: a wait is in progress, or a key
\* is due to expire within the explored horizon and a call may still follow.
TimeMatters ==
    \/ \E w \in DOMAIN wpc : wpc[w] \notin {"idle", "done"}
    \/ /\ \E i \in ResultIds : expiry[i] # None /\ expiry[i][1] <= MaxTime
       /\ \E w \in DOMAIN wpc : wpc[w] = "idle"

\* One tick passes; the keys whose TTL has run out are removed.
Tick ==
    /\ now < MaxTime
    /\ TimeMatters
    /\ \A w \in DOMAIN wpc : Blocked(w)
    /\ now' = now + 1
    /\ results' = [i \in ResultIds |-> IF Expired(i, now + 1) THEN None ELSE results[i]]
    /\ expiry' = [i \in ResultIds |-> IF Expired(i, now + 1) THEN None ELSE expiry[i]]
    /\ UNCHANGED <<success_ttl, failure_ttl, inbox, wsub, spc, srec, sout, sendAt, lastSet, foreign>>
    /\ UNCHANGED <<wvars, rout, qvars>>

\* --------------------------------------- result_backend.py: wait_for_result
Timeouts == (0 - 1)..MaxTimeout

\* A bug variant of WaitExit: closing the subscription of one caller closes
\* those of all callers on the shared client.
WaitExitClosesAll(w, out) ==
    /\ wpc' = [wpc EXCEPT ![w] = "done"]
    /\ wout' = [wout EXCEPT ![w] = out]
    /\ wend' = [wend EXCEPT ![w] = Some(now)]
    /\ wsub' = [x \in DOMAIN wsub |-> None]
    /\ inbox' = [x \in DOMAIN inbox |-> <<>>]

\* A bug variant of WaitExit: the subscription is not released when the call
\* ends by raising.
WaitExitLeakOnError(w, out) ==
    /\ wpc' = [wpc EXCEPT ![w] = "done"]
    /\ wout' = [wout EXCEPT ![w] = out]
    /\ wend' = [wend EXCEPT ![w] = Some(now)]
    /\ IF out.kind = "return"
       THEN wsub' = [wsub EXCEPT ![w] = None] /\ inbox' = [inbox EXCEPT ![w] = <<>>]
       ELSE UNCHANGED <<wsub, inbox>>

\* The call ends, by return or raise; finally: pubsub.close() releases the
\* subscription and drops the unread events.
WaitExit(w, out) ==
    /\ wpc' = [wpc EXCEPT ![w] = "done"]
    /\ wout' = [wout EXCEPT ![w] = out]
    /\ wend' = [wend EXCEPT ![w] = Some(now)]
    /\ wsub' = [wsub EXCEPT ![w] = None]
    /\ inbox' = [inbox EXCEPT ![w] = <<>>]

\* Variables a waiter's step leaves alone.
WaitFrame == UNCHANGED <<now, success_ttl, failure_ttl, results, expiry,
                         spc, srec, sout, sendAt, lastSet, foreign, rout, qvars>>

\* A bug variant of WaitStart: a timeout that is not positive returns None
\* before the first get_result.
WaitStartDeadlineFirst(w, id, timeout) ==
    /\ wpc[w] = "idle"
    /\ wid' = [wid EXCEPT ![w] = Some(id)]
    /\ wtimeout' = [wtimeout EXCEPT ![w] = timeout]
    /\ wcall' = [wcall EXCEPT ![w] = Some(now)]
    /\ IF timeout <= 0
       THEN WaitExit(w, Outcome("return", None))
       ELSE IF GetResult(id) = Outcome("return", None)
       THEN /\ wpc' = [wpc EXCEPT ![w] = "subscribe"]
            /\ UNCHANGED <<wout, wend, wsub, inbox>>
       ELSE WaitExit(w, GetResult(id))
    /\ UNCHANGED <<wstart, wrecv, wfail>>
    /\ WaitFrame

\* wait_for_result entry: the first get_result; a result is returned at once,
\* an error propagates, None leads on to the subscription.
WaitStart(w, id, timeout) ==
    /\ wpc[w] = "idle"
    /\ wid' = [wid EXCEPT ![w] = Some(id)]
    /\ wtimeout' = [wtimeout EXCEPT ![w] = timeout]
    /\ wcall' = [wcall EXCEPT ![w] = Some(now)]
    /\ IF GetResult(id) = Outcome("return", None)
       THEN /\ wpc' = [wpc EXCEPT ![w] = "subscribe"]
            /\ UNCHANGED <<wout, wend, wsub, inbox>>
       ELSE WaitExit(w, GetResult(id))
    /\ UNCHANGED <<wstart, wrecv, wfail>>
    /\ WaitFrame

\* The first get_result fails: ConnectionError.
WaitStartFail(w, id, timeout) ==
    /\ wpc[w] = "idle"
    /\ wid' = [wid EXCEPT ![w] = Some(id)]
    /\ wtimeout' = [wtimeout EXCEPT ![w] = timeout]
    /\ wcall' = [wcall EXCEPT ![w] = Some(now)]
    /\ wfail' = [wfail EXCEPT ![w] = TRUE]
    /\ WaitExit(w, GetResultFailed)
    /\ UNCHANGED <<wstart, wrecv>>
    /\ WaitFrame

\* pubsub.subscribe(channel); start_time = time.time().  The server confirms
\* the subscription with a "subscribe" event.
WaitSubscribe(w) ==
    /\ wpc[w] = "subscribe"
    /\ wsub' = [wsub EXCEPT ![w] = wid[w]]
    /\ inbox' = [inbox EXCEPT ![w] = <<[type |-> "subscribe", data |-> "1"]>>]
    /\ wstart' = [wstart EXCEPT ![w] = Some(now)]
    /\ wpc' = [wpc EXCEPT ![w] = "loop"]
    /\ UNCHANGED <<wid, wtimeout, wcall, wrecv, wout, wend, wfail>>
    /\ WaitFrame

\* pubsub.subscribe fails: ConnectionError.
WaitSubscribeFail(w) ==
    /\ wpc[w] = "subscribe"
    /\ wfail' = [wfail EXCEPT ![w] = TRUE]
    /\ WaitExit(w, Outcome("ConnectionError", None))
    /\ UNCHANGED <<wid, wtimeout, wcall, wstart, wrecv>>
    /\ WaitFrame

\* A bug variant of WaitLoop: the elapsed timeout raises TimeoutError.
WaitLoopRaises(w) ==
    /\ wpc[w] = "loop"
    /\ IF now - wstart[w][1] < wtimeout[w]
       THEN /\ wpc' = [wpc EXCEPT ![w] = "recv"]
            /\ wrecv' = [wrecv EXCEPT ![w] = Some(now)]
            /\ UNCHANGED <<wout, wend, wsub, inbox>>
       ELSE /\ WaitExit(w, Outcome("TimeoutError", None))
            /\ UNCHANGED wrecv
    /\ UNCHANGED <<wid, wtimeout, wcall, wstart, wfail>>
    /\ WaitFrame

\* A bug variant of WaitLoop: a wait that times out deletes the result key.
WaitLoopDeletesOnTimeout(w) ==
    /\ wpc[w] = "loop"
    /\ IF now - wstart[w][1] < wtimeout[w]
       THEN /\ wpc' = [wpc EXCEPT ![w] = "recv"]
            /\ wrecv' = [wrecv EXCEPT ![w] = Some(now)]
            /\ UNCHANGED <<wout, wend, wsub, inbox, results, expiry>>
       ELSE /\ WaitExit(w, Outcome("return", None))
            /\ results' = [results EXCEPT ![wid[w][1]] = None]
            /\ expiry' = [expiry EXCEPT ![wid[w][1]] = None]
            /\ UNCHANGED wrecv
    /\ UNCHANGED <<wid, wtimeout, wcall, wstart, wfail>>
    /\ UNCHANGED <<now, success_ttl, failure_ttl, spc, srec, sout, sendAt,
                   lastSet, foreign, rout, qvars>>

\* while time.time() - start_time < timeout_seconds: ... ; return None
WaitLoop(w) ==
    /\ wpc[w] = "loop"
    /\ IF now - wstart[w][1] < wtimeout[w]
       THEN /\ wpc' = [wpc EXCEPT ![w] = "recv"]
            /\ wrecv' = [wrecv EXCEPT ![w] = Some(now)]
            /\ UNCHANGED <<wout, wend, wsub, inbox>>
       ELSE /\ WaitExit(w, Outcome("return", None))
            /\ UNCHANGED wrecv
    /\ UNCHANGED <<wid, wtimeout, wcall, wstart, wfail>>
    /\ WaitFrame

\* A bug variant of WaitRecvEvent: the type of the event is not looked at,
\* every event leads to the fetch.
WaitRecvEventAnyType(w) ==
    /\ wpc[w] = "recv"
    /\ inbox[w] # <<>>
    /\ inbox' = [inbox EXCEPT ![w] = Tail(@)]
    /\ wpc' = [wpc EXCEPT ![w] = "fetch"]
    /\ UNCHANGED <<wid, wtimeout, wcall, wstart, wrecv, wout, wend, wfail, wsub>>
    /\ WaitFrame

\* get_message returns an event; a published message leads to the fetch.
WaitRecvEvent(w) ==
    /\ wpc[w] = "recv"
    /\ inbox[w] # <<>>
    /\ inbox' = [inbox EXCEPT ![w] = Tail(@)]
    /\ wpc' = [wpc EXCEPT ![w] =
                 IF Head(inbox[w]).type = "message" THEN "fetch" ELSE "grace"]
    /\ UNCHANGED <<wid, wtimeout, wcall, wstart, wrecv, wout, wend, wfail, wsub>>
    /\ WaitFrame

\* A bug variant of WaitRecvTimeout: get_message is called without a timeout
\* and returns only when an event is there.
WaitRecvTimeoutNever(w) ==
    /\ wpc[w] = "recv"
    /\ FALSE
    /\ UNCHANGED vars

\* get_message returns None after poll_interval without an event.
WaitRecvTimeout(w) ==
    /\ wpc[w] = "recv"
    /\ inbox[w] = <<>>
    /\ now >= wrecv[w][1] + PollInterval
    /\ wpc' = [wpc EXCEPT ![w] = "grace"]
    /\ UNCHANGED <<wid, wtimeout, wcall, wstart, wrecv, wout, wend, wfail, wsub, inbox>>
    /\ WaitFrame

\* get_message fails: ConnectionError.
WaitRecvFail(w) ==
    /\ wpc[w] = "recv"
    /\ wfail' = [wfail EXCEPT ![w] = TRUE]
    /\ WaitExit(w, Outcome("ConnectionError", None))
    /\ UNCHANGED <<wid, wtimeout, wcall, wstart, wrecv>>
    /\ WaitFrame

\* Got notification: return self.get_result(job_id)
WaitFetch(w) ==
    /\ wpc[w] = "fetch"
    /\ WaitExit(w, GetResult(wid[w][1]))
    /\ UNCHANGED <<wid, wtimeout, wcall, wstart, wrecv, wfail>>
    /\ WaitFrame

\* The get_result after a notification fails: ConnectionError.
WaitFetchFail(w) ==
    /\ wpc[w] = "fetch"
    /\ wfail' = [wfail EXCEPT ![w] = TRUE]
    /\ WaitExit(w, GetResultFailed)
    /\ UNCHANGED <<wid, wtimeout, wcall, wstart, wrecv>>
    /\ WaitFrame

\* A bug variant of PastGrace: the periodic re-check is never due.
PastGraceNever(w, late) == FALSE

\* A bug variant of PastGrace: the periodic re-check starts after one second.
PastGraceOneSecond(w, late) == now - wstart[w][1] > 2 * GracePeriod

\* time.time() - start_time > 0.5.  The clock readings are real numbers of
\* which the model keeps the whole ticks: at exactly GracePeriod whole ticks
\* the real difference is GracePeriod or more (late).
PastGrace(w, late) ==
    \/ now - wstart[w][1] > GracePeriod
    \/ now - wstart[w][1] = GracePeriod /\ late

\* if time.time() - start_time > 0.5: re-check; else next iteration
WaitGrace(w, late) ==
    /\ wpc[w] = "grace"
    /\ wpc' = [wpc EXCEPT ![w] = IF PastGrace(w, late) THEN "recheck" ELSE "loop"]
    /\ UNCHANGED <<wid, wtimeout, wcall, wstart, wrecv, wout, wend, wfail, wsub, inbox>>
    /\ WaitFrame

\* result = self.get_result(job_id); if result: return result
WaitRecheck(w) ==
    /\ wpc[w] = "recheck"
    /\ IF GetResult(wid[w][1]) = Outcome("return", None)
       THEN /\ wpc' = [wpc EXCEPT ![w] = "loop"]
            /\ UNCHANGED <<wout, wend, wsub, inbox>>
       ELSE WaitExit(w, GetResult(wid[w][1]))
    /\ UNCHANGED <<wid, wtimeout, wcall, wstart, wrecv, wfail>>
    /\ WaitFrame

\* The periodic get_result fails: ConnectionError.
WaitRecheckFail(w) ==
    /\ wpc[w] = "recheck"
    /\ wfail' = [wfail EXCEPT ![w] = TRUE]
    /\ WaitExit(w, GetResultFailed)
    /\ UNCHANGED <<wid, wtimeout, wcall, wstart, wrecv>>
    /\ WaitFrame

\* ---------------------------------------------------------- specifications
QNext == QStep

InitQueue == QInit /\ RInitWith(<<DefaultSuccessTTL, DefaultFailureTTL>>)

\* The queue store under two concurrent callers.
SpecQueue == InitQueue /\ [][QNext]_vars

\* Records written while a wait is explored: one per outcome kind and id.
WaitRecords == {r \in ResultRecords : r.duration_ms = 0 /\ r.status # "processing"
                                       /\ r.result # Some(EmptyDict)}

\* The writer acting while a wait is explored.
WaitWriters == {"s1"}

WNext ==
    \/ \E s \in WaitWriters, r \in WaitRecords : SetResultExec(s, r)
    \/ \E s \in WaitWriters, r \in WaitRecords : SetResultExecFail(s, r)
    \/ \E s \in WaitWriters : SetResultPublish(s)
    \/ \E s \in WaitWriters : SetResultPublishFail(s)
    \/ \E w \in Waiters, id \in ResultIds, t \in Timeouts : WaitStart(w, id, t)
    \/ \E w \in Waiters, id \in ResultIds, t \in Timeouts : WaitStartFail(w, id, t)
    \/ \E w \in Waiters : WaitSubscribe(w)
    \/ \E w \in Waiters : WaitSubscribeFail(w)
    \/ \E w \in Waiters : WaitLoop(w)
    \/ \E w \in Waiters : WaitRecvEvent(w)
    \/ \E w \in Waiters : WaitRecvTimeout(w)
    \/ \E w \in Waiters : WaitRecvFail(w)
    \/ \E w \in Waiters : WaitFetch(w)
    \/ \E w \in Waiters : WaitFetchFail(w)
    \/ \E w \in Waiters, late \in BOOLEAN : WaitGrace(w, late)
    \/ \E w \in Waiters : WaitRecheck(w)
    \/ \E w \in Waiters : WaitRecheckFail(w)
    \/ Tick

InitResult == QInit /\ RInit

\* wait_for_result against a concurrent set_result call, the clock running.
SpecWait == InitResult /\ [][WNext]_vars

FNext ==
    \/ WNext
    \/ \E id \in ResultIds : ForeignHSet(id)

\* SpecWait with another producer that writes an undecodable hash.
SpecWaitForeign == InitResult /\ [][FNext]_vars

\* Records written while the store is explored: each shape of record once.
StoreRecords == {r \in ResultRecords :
                    /\ r.job_id = "a"
                    /\ r.duration_ms = (IF Truthy(r.result) \/ r.status = "processing"
                                        THEN 1500 ELSE 0)}

RNext ==
    \/ \E s \in Writers, r \in StoreRecords : SetResultExec(s, r)
    \/ \E s \in Writers, r \in StoreRecords : SetResultExecFail(s, r)
    \/ \E s \in Writers : SetResultPublish(s)
    \/ \E s \in Writers : SetResultPublishFail(s)
    \/ \E id \in ResultIds : GetResultCall(id)
    \/ \E id \in ResultIds : GetResultCallFail(id)
    \/ Tick

\* set_result and get_result under two concurrent writers, the clock running.
SpecResult == InitResult /\ [][RNext]_vars

\* The ids written while the readers are explored; the other ids never are.
WrittenJobIds == {1}
WrittenResultIds == {"a"}

\* Two concurrent callers of wait_for_result for one job id, one with a
\* timeout below the grace period and one above it.
MultiWaiters == {"w1", "w2"}
MultiIds == {"a"}
MultiTimeouts == {2, MaxTimeout}
MultiRecords == {r \in WaitRecords : r.job_id \in MultiIds /\ r.status = "completed"}

MNext ==
    \/ \E s \in WaitWriters, r \in MultiRecords : SetResultExec(s, r)
    \/ \E s \in WaitWriters : SetResultPublish(s)
    \/ \E w \in MultiWaiters, id \in MultiIds, t \in MultiTimeouts : WaitStart(w, id, t)
    \/ \E w \in MultiWaiters : WaitSubscribe(w)
    \/ \E w \in MultiWaiters : WaitLoop(w)
    \/ \E w \in MultiWaiters : WaitRecvEvent(w)
    \/ \E w \in MultiWaiters : WaitRecvTimeout(w)
    \/ \E w \in MultiWaiters : WaitFetch(w)
    \/ \E w \in MultiWaiters, late \in BOOLEAN : WaitGrace(w, late)
    \/ \E w \in MultiWaiters : WaitRecheck(w)
    \/ Tick

InitMulti == QInit /\ \E cfg \in TTLConfigs : RInitFor(cfg, MultiWaiters)

\* Two wait_for_result calls on one job id against one set_result call.
SpecMulti == InitMulti /\ [][MNext]_vars

\* Jobs enqueued while the readers are explored.
ReadJobs == {NewJob(id, "high") : id \in WrittenJobIds}

\* The caller enqueueing while the readers are explored.
ReadClients == {"c1"}

DNext ==
    \/ \E c \in ReadClients, job \in ReadJobs : EnqueueSet(c, job)
    \/ \E c \in ReadClients : EnqueuePush(c)
    \/ \E id \in WrittenJobIds : \E v \in CorruptJobs(id) : ForeignSet(id, v)
    \/ \E id \in JobIds : GetJobCall(id)
    \/ \E id \in JobIds : GetJobCallFail(id)
    \/ \E s \in WaitWriters, r \in StoreRecords : SetResultExec(s, r)
    \/ \E s \in WaitWriters : SetResultPublish(s)
    \/ \E id \in WrittenResultIds, h \in UndecodableHashes \cup LooseHashes :
          ForeignHashWrite(id, h)
    \/ \E id \in ResultIds : GetResultCall(id)
    \/ \E id \in ResultIds : GetResultCallFail(id)

\* get_job and get_result over a store that this client and other processes
\* write.
SpecRead == InitResult /\ [][DNext]_vars

\* The caller, jobs, records, ids and the timeout used while all operations
\* of the layer are explored together: a PENDING job per id, one SCHEDULED
\* job, one COMPLETED record, a wait long enough to reach the periodic
\* re-check.
LayerJobs ==
    {NewJob(id, "high") : id \in JobIds}
    \cup {[id |-> 1, priority |-> "high", status |-> "scheduled", scheduled_for |-> Some(1),
         payload |-> Payload]}
LayerClients == {"c1"}
LayerJobIds == {1}
LayerResultIds == {"a"}
LayerRecords == {r \in WaitRecords : r.job_id \in LayerResultIds /\ Truthy(r.result)}
LayerTimeouts == {GracePeriod + 1}

LNext ==
    \/ \E c \in LayerClients, job \in LayerJobs : EnqueueSet(c, job)
    \/ \E c \in LayerClients, job \in LayerJobs : EnqueueSetFail(c, job)
    \/ \E c \in LayerClients : EnqueuePush(c)
    \/ \E c \in LayerClients : EnqueuePushFail(c)
    \/ \E c \in LayerClients, job \in LayerJobs : EnqueueScheduledSet(c, job)
    \/ \E c \in LayerClients, job \in LayerJobs : EnqueueScheduledSetFail(c, job)
    \/ \E c \in LayerClients : EnqueueScheduledZadd(c)
    \/ \E c \in LayerClients : EnqueueScheduledZaddFail(c)
    \/ \E id \in LayerJobIds : GetJobCall(id)
    \/ \E id \in LayerJobIds : GetJobCallFail(id)
    \/ \E s \in WaitWriters, r \in LayerRecords : SetResultExec(s, r)
    \/ \E s \in WaitWriters, r \in LayerRecords : SetResultExecFail(s, r)
    \/ \E s \in WaitWriters : SetResultPublish(s)
    \/ \E s \in WaitWriters : SetResultPublishFail(s)
    \/ \E id \in LayerResultIds : GetResultCall(id)
    \/ \E id \in LayerResultIds : GetResultCallFail(id)
    \/ \E w \in Waiters, id \in LayerResultIds, t \in LayerTimeouts : WaitStart(w, id, t)
    \/ \E w \in Waiters, id \in LayerResultIds, t \in LayerTimeouts : WaitStartFail(w, id, t)
    \/ \E w \in Waiters : WaitSubscribe(w)
    \/ \E w \in Waiters : WaitSubscribeFail(w)
    \/ \E w \in Waiters : WaitLoop(w)
    \/ \E w \in Waiters : WaitRecvEvent(w)
    \/ \E w \in Waiters : WaitRecvTimeout(w)
    \/ \E w \in Waiters : WaitRecvFail(w)
    \/ \E w \in Waiters : WaitFetch(w)
    \/ \E w \in Waiters : WaitFetchFail(w)
    \/ \E w \in Waiters, late \in BOOLEAN : WaitGrace(w, late)
    \/ \E w \in Waiters : WaitRecheck(w)
    \/ \E w \in Waiters : WaitRecheckFail(w)
    \/ Tick

\* Every operation of the queue store and of the result store, each store
\* call of which may fail, over one shared store.
SpecLayer == InitQueue /\ [][LNext]_vars

\* Job objects of every status, as a caller can build them with Job(...,
\* status=...) or update_status and hand them to enqueue / enqueue_scheduled.
StatusJobs ==
    [id : JobIds, priority : {"normal"}, status : JobStatus, scheduled_for : Opt({1}),
     payload : {Payload}]

\* The due time given to submit_job_scheduled.
SubmitDueTimes == {1}

UNext ==
    \/ \E c \in QClients, id \in JobIds, p \in JobPriority : SubmitJob(c, id, p)
    \/ \E c \in QClients, id \in JobIds, p \in JobPriority : SubmitJobFail(c, id, p)
    \/ \E c \in QClients, id \in JobIds, p \in JobPriority : SubmitAndWait(c, id, p)
    \/ \E c \in QClients, id \in JobIds, p \in JobPriority : SubmitJobScheduledInvalid(c, id, p)
    \/ \E c \in QClients, id \in JobIds, p \in JobPriority, due \in SubmitDueTimes :
          SubmitJobScheduled(c, id, p, due)
    \/ \E c \in QClients, id \in JobIds, p \in JobPriority, due \in SubmitDueTimes :
          SubmitJobScheduledFail(c, id, p, due)
    \/ \E c \in QClients, job \in StatusJobs : EnqueueSet(c, job)
    \/ \E c \in QClients : EnqueuePush(c)
    \/ \E c \in QClients : EnqueuePushFail(c)
    \/ \E c \in QClients, job \in StatusJobs : EnqueueScheduledInvalid(c, job)
    \/ \E c \in QClients, job \in StatusJobs : EnqueueScheduledSet(c, job)
    \/ \E c \in QClients : EnqueueScheduledZadd(c)
    \/ \E c \in QClients : EnqueueScheduledZaddFail(c)

\* The write operations of Client and of RedisQueue under two callers, the
\* jobs given to RedisQueue directly carrying any status.
SpecSubmit == InitQueue /\ [][UNext]_vars

FrameNext ==
    \/ \E c \in QClients, job \in LayerJobs : EnqueueSet(c, job)
    \/ \E c \in QClients : EnqueuePush(c)
    \/ \E c \in QClients, job \in LayerJobs : EnqueueScheduledSet(c, job)
    \/ \E c \in QClients : EnqueueScheduledZadd(c)
    \/ \E id \in JobIds : GetJobCall(id)
    \/ \E s \in WaitWriters, r \in LayerRecords : SetResultExec(s, r)
    \/ \E s \in WaitWriters : SetResultPublish(s)
    \/ \E id \in LayerResultIds : GetResultCall(id)
    \/ \E w \in Waiters, id \in LayerResultIds, t \in LayerTimeouts : WaitStart(w, id, t)
    \/ \E w \in Waiters : WaitSubscribe(w)
    \/ \E w \in Waiters : WaitLoop(w)
    \/ \E w \in Waiters : WaitRecvEvent(w)
    \/ \E w \in Waiters : WaitRecvTimeout(w)
    \/ \E w \in Waiters : WaitFetch(w)
    \/ \E w \in Waiters, late \in BOOLEAN : WaitGrace(w, late)
    \/ \E w \in Waiters : WaitRecheck(w)
    \/ Tick

\* Two callers enqueueing while get_job, set_result, get_result and
\* wait_for_result run, no store call failing.
SpecFrame == InitQueue /\ [][FrameNext]_vars

\* ------------------------------------------------- models.py: round trips
\* Job.to_json
JobToJson(job) == JsonDumps(JobToDict(job))

\* Job.from_json
JobFromJson(x) == JobFromDict(JsonLoads(x))

\* JobResult.to_dict: job_id, status, completed_at and duration_ms always,
\* result and error only when truthy.  The values are the native ones: the
\* result a dict, the duration an int (kept as <<"int", n>>).
ResultToDict(r) ==
    [job_id |-> r.job_id,
     status |-> Some(r.status),
     completed_at |-> Some(IsoFormat(r.completed_at)),
     duration_ms |-> Some(<<"int", r.duration_ms>>),
     result |-> IF Truthy(r.result) THEN r.result ELSE None,
     error |-> IF r.error # "" THEN Some(r.error) ELSE None]

\* Job objects given to the codec: every priority, with and without a due
\* time, every payload.
CodecJobs ==
    [id : JobIds, priority : JobPriority, status : {"pending", "scheduled"},
     scheduled_for : Opt(DueTimes), payload : Payloads]

\* job.to_dict()
JobToDictCall(job) ==
    /\ fin' = <<"Job.dict", job>>
    /\ fout' = <<"encoded", JobToDict(job)>>
    /\ UNCHANGED <<jobs, queues, scheduled, cpc, cjob, cop, cout, ccalls, jout, jexpire,
                   kpc, qconn, rconn, kout, kcloses, rvars>>

\* job.to_json()
JobToJsonCall(job) ==
    /\ fin' = <<"Job.json", job>>
    /\ fout' = <<"encoded", JobToJson(job)>>
    /\ UNCHANGED <<jobs, queues, scheduled, cpc, cjob, cop, cout, ccalls, jout, jexpire,
                   kpc, qconn, rconn, kout, kcloses, rvars>>

\* result.to_dict()
ResultToDictCall(r) ==
    /\ fin' = <<"JobResult.dict", r>>
    /\ fout' = <<"encoded", ResultToDict(r)>>
    /\ UNCHANGED <<jobs, queues, scheduled, cpc, cjob, cop, cout, ccalls, jout, jexpire,
                   kpc, qconn, rconn, kout, kcloses, rvars>>

\* Job.from_dict / Job.from_json / JobResult.from_dict on what the last
\* encoding call returned.
FromCall ==
    /\ fout # None /\ fout[1] = "encoded"
    /\ fout' = <<"decoded",
                 CASE fin[1] = "Job.dict" -> JobFromDict(fout[2])
                   [] fin[1] = "Job.json" -> JobFromJson(fout[2])
                   [] fin[1] = "JobResult.dict" -> ResultFromDict(fout[2].job_id, fout[2])>>
    /\ UNCHANGED <<jobs, queues, scheduled, cpc, cjob, cop, cout, ccalls, jout, jexpire,
                   fin, kpc, qconn, rconn, kout, kcloses, rvars>>

CodecNext ==
    \/ \E job \in CodecJobs : JobToDictCall(job)
    \/ \E job \in CodecJobs : JobToJsonCall(job)
    \/ \E r \in ResultRecords : ResultToDictCall(r)
    \/ FromCall

\* The codecs of models.py applied to every job and every result record.
SpecCodec == InitQueue /\ [][CodecNext]_vars

\* ------------------------------------------------- client.py: life of a Client
\* The connections are the driver's (redis.from_url); its close() releases
\* the connection, raises nothing and may be repeated.
\* How many times close() runs on one Client, __exit__ included.
MaxCloses == 3

\* Client.__init__, first line: RedisQueue(redis_url) connects and pings.
ClientInitQueue(k) ==
    /\ kpc[k] = "none"
    /\ kpc' = [kpc EXCEPT ![k] = "queue_open"]
    /\ qconn' = [qconn EXCEPT ![k] = "open"]
    /\ UNCHANGED <<jobs, queues, scheduled, cpc, cjob, cop, cout, ccalls, jout, jexpire,
                   fin, fout, rconn, kout, kcloses, rvars>>

\* Client.__init__, first line, the ping failing: ConnectionError, no
\* connection was made.
ClientInitQueueFail(k) ==
    /\ kpc[k] = "none"
    /\ kpc' = [kpc EXCEPT ![k] = "raised"]
    /\ kout' = [kout EXCEPT ![k] = "ConnectionError"]
    /\ UNCHANGED <<jobs, queues, scheduled, cpc, cjob, cop, cout, ccalls, jout, jexpire,
                   fin, fout, qconn, rconn, kcloses, rvars>>

\* Client.__init__, second line: RedisResultBackend(...) connects and pings;
\* the constructor returns.
ClientInitResult(k) ==
    /\ kpc[k] = "queue_open"
    /\ kpc' = [kpc EXCEPT ![k] = "ready"]
    /\ rconn' = [rconn EXCEPT ![k] = "open"]
    /\ kout' = [kout EXCEPT ![k] = "ok"]
    /\ UNCHANGED <<jobs, queues, scheduled, cpc, cjob, cop, cout, ccalls, jout, jexpire,
                   fin, fout, qconn, kcloses, rvars>>

\* Client.__init__, second line, the ping failing: the ConnectionError leaves
\* the constructor; nothing in it touches self.queue on the way out.
ClientInitResultFail(k) ==
    /\ kpc[k] = "queue_open"
    /\ kpc' = [kpc EXCEPT ![k] = "raised"]
    /\ kout' = [kout EXCEPT ![k] = "ConnectionError"]
    /\ UNCHANGED <<jobs, queues, scheduled, cpc, cjob, cop, cout, ccalls, jout, jexpire,
                   fin, fout, qconn, rconn, kcloses, rvars>>

\* A bug variant of Close: only the queue is closed.
CloseQueueOnly(k) ==
    /\ qconn' = [qconn EXCEPT ![k] = "closed"]
    /\ kcloses' = [kcloses EXCEPT ![k] = @ + 1]
    /\ kout' = [kout EXCEPT ![k] = "ok"]
    /\ UNCHANGED rconn

\* Client.close: queue.close() then result_backend.close(), each closing its
\* driver connection.
Close(k) ==
    /\ qconn' = [qconn EXCEPT ![k] = "closed"]
    /\ rconn' = [rconn EXCEPT ![k] = "closed"]
    /\ kcloses' = [kcloses EXCEPT ![k] = @ + 1]
    /\ kout' = [kout EXCEPT ![k] = "ok"]

\* client.close() on a constructed Client, inside or outside a with block,
\* before or after an earlier close.
ClientClose(k) ==
    /\ kpc[k] \in {"ready", "with", "exited", "exited_raising"}
    /\ kcloses[k] < MaxCloses
    /\ Close(k)
    /\ UNCHANGED <<jobs, queues, scheduled, cpc, cjob, cop, cout, ccalls, jout, jexpire,
                   fin, fout, kpc, rvars>>

\* Client.__enter__: `with client:` returns the client itself.
ClientEnter(k) ==
    /\ kpc[k] = "ready"
    /\ kpc' = [kpc EXCEPT ![k] = "with"]
    /\ UNCHANGED <<jobs, queues, scheduled, cpc, cjob, cop, cout, ccalls, jout, jexpire,
                   fin, fout, qconn, rconn, kout, kcloses, rvars>>

\* Client.__exit__: the with block ends, normally or with an exception of its
\* body (raising); close() runs and the exception, if any, goes on.
ClientExit(k, raising) ==
    /\ kpc[k] = "with"
    /\ kcloses[k] < MaxCloses
    /\ kpc' = [kpc EXCEPT ![k] = IF raising THEN "exited_raising" ELSE "exited"]
    /\ Close(k)
    /\ UNCHANGED <<jobs, queues, scheduled, cpc, cjob, cop, cout, ccalls, jout, jexpire,
                   fin, fout, rvars>>

LifeNext ==
    \/ \E k \in Clients : ClientInitQueue(k)
    \/ \E k \in Clients : ClientInitQueueFail(k)
    \/ \E k \in Clients : ClientInitResult(k)
    \/ \E k \in Clients : ClientInitResultFail(k)
    \/ \E k \in Clients : ClientClose(k)
    \/ \E k \in Clients : ClientEnter(k)
    \/ \E k \in Clients, raising \in BOOLEAN : ClientExit(k, raising)

\* Two Client objects constructed, used as context managers and closed.
SpecLife == InitQueue /\ [][LifeNext]_vars

\* ------------------------------------------- queue.py, result_backend.py: keys
\* Strings are sequences of pieces: the separator, the words the key formats
\* spell, and other text.  An id is any sequence of pieces, so it can hold the
\* separator and the words of the formats.
Sep == ":"

MaxIdLen == 3

IdPieces == {Sep, "x", "notify", "scheduled"}

\* key_prefix: the default one and one that holds the separator.
KeyPrefixes == {<<"bananas">>, <<"bananas", Sep, "result">>}

\* f"{self.key_prefix}:job:{job.id}"
JobKey(p, id) == p \o <<Sep, "job", Sep>> \o id

\* f"{self.key_prefix}:queue:{job.priority.value}"
QueueKey(p, priority) == p \o <<Sep, "queue", Sep, priority>>

\* f"{self.key_prefix}:queue:scheduled"
ScheduledKey(p) == p \o <<Sep, "queue", Sep, "scheduled">>

\* f"{self.key_prefix}:result:{job_id}"
ResultKey(p, id) == p \o <<Sep, "result", Sep>> \o id

\* A bug variant of NotifyChannel: the channel is named as the result key.
NotifyChannelAsResultKey(p, id) == p \o <<Sep, "result", Sep>> \o id

\* f"{self.key_prefix}:result:notify:{job_id}"
NotifyChannel(p, id) == p \o <<Sep, "result", Sep, "notify", Sep>> \o id

\* The keys and channels the two stores build, by kind, for a set of ids.
KeysOf(p, ids) ==
    [job |-> {JobKey(p, i) : i \in ids},
     queue |-> {QueueKey(p, pr) : pr \in JobPriority},
     scheduled |-> {ScheduledKey(p)},
     result |-> {ResultKey(p, i) : i \in ids},
     notify |-> {NotifyChannel(p, i) : i \in ids}]

KeyKinds == {"job", "queue", "scheduled", "result", "notify"}

\* The stores, configured with prefix p, build the keys of the ids x and y.
BuildKeys(p, x, y) ==
    /\ fin' = <<"keys", p, x, y>>
    /\ fout' = <<"keys", KeysOf(p, {x, y})>>
    /\ UNCHANGED <<jobs, queues, scheduled, cpc, cjob, cop, cout, ccalls, jout, jexpire,
                   kpc, qconn, rconn, kout, kcloses, rvars>>

\* The first keys built under a prefix are those of the empty id.
StartKeys(p) ==
    /\ fin = None
    /\ BuildKeys(p, <<>>, <<>>)

\* The keys are built again for an id one piece longer: the first id when
\* first holds, else the second.
ExtendId(first, piece) ==
    /\ fin # None /\ fin[1] = "keys"
    /\ Len(IF first THEN fin[3] ELSE fin[4]) < MaxIdLen
    /\ BuildKeys(fin[2],
                 IF first THEN Append(fin[3], piece) ELSE fin[3],
                 IF first THEN fin[4] ELSE Append(fin[4], piece))

KeysNext ==
    \/ \E p \in KeyPrefixes : StartKeys(p)
    \/ \E first \in BOOLEAN, piece \in IdPieces : ExtendId(first, piece)

\* The key formats applied to every pair of ids under every prefix.
SpecKeys == InitQueue /\ [][KeysNext]_vars

\* A step of the wait of w after its entry, every store call of which returns
\* normally.
WaitStep(w) ==
    \/ WaitSubscribe(w)
    \/ WaitLoop(w)
    \/ WaitRecvEvent(w)
    \/ WaitRecvTimeout(w)
    \/ WaitFetch(w)
    \/ \E late \in BOOLEAN : WaitGrace(w, late)
    \/ WaitRecheck(w)

\* SpecWait with time passing and every store call of a wait returning: a
\* waiter that can take a step takes one, and the clock goes on while every
\* waiter is blocked.  A store call may still fail instead of returning
\* normally.
SpecWaitFair ==
    /\ InitResult /\ [][WNext]_vars
    /\ WF_vars(Tick)
    /\ \A w \in Waiters : WF_vars(WaitStep(w))

ClientNext ==
    \/ \E c \in QClients, id \in JobIds, p \in JobPriority : SubmitJob(c, id, p)
    \/ \E c \in QClients, id \in JobIds, p \in JobPriority : SubmitJobFail(c, id, p)
    \/ \E c \in QClients, id \in JobIds, p \in JobPriority : SubmitJobWithRoute(c, id, p)
    \/ \E c \in QClients, id \in JobIds, p \in JobPriority : SubmitAndWait(c, id, p)
    \/ \E c \in QClients, id \in JobIds, p \in JobPriority : SubmitJobScheduledInvalid(c, id, p)
    \/ \E c \in QClients, id \in JobIds, p \in JobPriority, due \in DueTimes :
          SubmitJobScheduled(c, id, p, due)
    \/ \E c \in QClients, id \in JobIds, p \in JobPriority, due \in DueTimes :
          SubmitJobScheduledFail(c, id, p, due)
    \/ \E c \in QClients : EnqueuePush(c)
    \/ \E c \in QClients : EnqueuePushFail(c)
    \/ \E c \in QClients : EnqueueScheduledZadd(c)
    \/ \E c \in QClients : EnqueueScheduledZaddFail(c)

\* The submit operations of Client under two callers, every job built by the
\* Client itself.
SpecClient == InitQueue /\ [][ClientNext]_vars

\* ------------------------------------------------------------------ claims
\* C1: in every reachable state, also after a crash between the two writes
\* and under any interleaving of two callers, every job id in a priority list
\* or in the scheduled set has a job record under its job key.
C1_QueuedHasRecord ==
    /\ \A p \in JobPriority : \A k \in 1..Len(queues[p]) : jobs[queues[p][k]] # None
    /\ \A i \in JobIds : scheduled[i] # None => jobs[i] # None

\* A caller crashed between its two writes (record without queue entry) while
\* the other caller's enqueue completed.
C1_Witness ==
    \E c, d \in QClients :
        /\ cpc[c] = "crashed"
        /\ jobs[cjob[c][1].id] # None
        /\ cpc[d] = "done" /\ cout[d] = "ok"
        /\ \/ \E p \in JobPriority : Len(queues[p]) > 0
           \/ \E i \in JobIds : scheduled[i] # None

\* The TTL that a record's status selects, in ticks.
TTLTicks(r) ==
    (IF r.status = "completed" THEN success_ttl ELSE failure_ttl) * TicksPerSecond

\* The waiter holds a notification: read and about to fetch, or still unread.
Notified(w) ==
    \/ wpc[w] = "fetch"
    \/ \E k \in 1..Len(inbox[w]) : inbox[w][k].type = "message"

\* The get_result of id would return a JobResult.
Readable(id) == GetResult(id).kind = "return" /\ GetResult(id).val # None

\* C2 as stated: whenever a waiter has received a notification published by
\* set_result, get_result for that id finds the result.
C2_NotifiedFindsResult ==
    \A w \in Waiters : Notified(w) => Readable(wid[w][1])

\* C2, amended: set_result publishes only after its batch committed: when it
\* is about to publish, and when a waiter holds its notification, the result
\* is readable unless the TTL set by that batch has run out since.
C2_NotifiedFindsResultUnlessExpired ==
    /\ \A s \in Writers :
         spc[s] = "publish" =>
            LET id == srec[s][1].job_id IN
            /\ lastSet[id] # None
            /\ now < lastSet[id][1].at + TTLTicks(lastSet[id][1].rec) => Readable(id)
    /\ \A w \in Waiters :
         Notified(w) =>
            LET id == wid[w][1] IN
            /\ lastSet[id] # None
            /\ now < lastSet[id][1].at + TTLTicks(lastSet[id][1].rec) => Readable(id)

\* A waiter woken by a notification, the result readable.
C2_Witness ==
    \E w \in Waiters : wpc[w] = "fetch" /\ Readable(wid[w][1])

\* The step of w ends its call by returning None.
ReturnsEmpty(w) ==
    /\ wpc[w] \notin {"idle", "done"}
    /\ wpc'[w] = "done"
    /\ wout'[w] = Outcome("return", None)

\* A set_result for the waiter's id returned while the wait was in progress,
\* at least one poll interval before the deadline.
CompletedInTime(w) ==
    \E s \in Writers :
        /\ sout[s] = "ok"
        /\ srec[s][1].job_id = wid[w][1]
        /\ wcall[w][1] <= sendAt[s][1]
        /\ sendAt[s][1] + PollInterval <= wcall[w][1] + wtimeout[w]

C4_EmptyOnlyAtDeadline ==
    \A w \in Waiters :
        (wpc[w] = "done" /\ wout[w] = Outcome("return", None))
            => wend[w][1] - wcall[w][1] >= wtimeout[w]

\* C5: once a wait_for_result call has ended, on whichever path, its
\* subscription is released; none is open before the call either.
C5_SubscriptionReleased ==
    \A w \in Waiters : wpc[w] \in {"idle", "done"} => (wsub[w] = None /\ inbox[w] = <<>>)

\* A call that had subscribed ended by raising the deserialization error.
C5_Witness ==
    \E w \in Waiters :
        /\ wpc[w] = "done" /\ wstart[w] # None
        /\ wout[w].kind = "ResultNotFoundError"
        /\ wsub[w] = None

C7_ReadsLastRecord ==
    \A id \in ResultIds :
        (lastSet[id] # None /\ results[id] # None) =>
            LET r == lastSet[id][1].rec
                got == GetResult(id) IN
            /\ got.kind = "return" /\ got.val # None
            /\ got.val[1].status = r.status
            /\ got.val[1].duration_ms = r.duration_ms
            /\ got.val[1].error = r.error
            /\ got.val[1].result = (IF Truthy(r.result) THEN r.result ELSE None)

\* C8: while the hash written by set_result is stored, its expiry is the tick
\* of the last commit plus the success TTL if that record is COMPLETED and
\* the failure TTL otherwise; the TTLs are the defaults or those given.
C8_ExpiryFollowsStatus ==
    /\ <<success_ttl, failure_ttl>> \in TTLConfigs
    /\ \A id \in ResultIds :
         (lastSet[id] # None /\ results[id] # None) =>
            expiry[id] = Some(lastSet[id][1].at + TTLTicks(lastSet[id][1].rec))

\* The batch of s has committed.
Committed(s) == spc[s] \in {"publish", "done", "raised_publish"}

\* Two set_result calls for one id have committed, a COMPLETED record first
\* and a record of another status last, later than the first.
C8_Witness ==
    \E s, t \in Writers :
        /\ s # t /\ Committed(s) /\ Committed(t)
        /\ srec[s][1].job_id = srec[t][1].job_id
        /\ srec[s][1].status = "completed"
        /\ srec[t][1].status = "processing"
        /\ lastSet[srec[t][1].job_id] # None
        /\ lastSet[srec[t][1].job_id][1].rec = srec[t][1]
        /\ lastSet[srec[t][1].job_id][1].at > 0
        /\ results[srec[t][1].job_id] # None

\* C9: no state holds a result hash without an expiry, and the step in which
\* the batch fails changes neither the hashes nor the expiries and publishes
\* nothing (the call has ended by then, so nothing is published later).
C9_BatchAtomic ==
    /\ [](\A id \in ResultIds : results[id] # None => expiry[id] # None)
    /\ [][\A s \in Writers :
            (spc[s] # "raised_execute" /\ spc'[s] = "raised_execute")
                => UNCHANGED <<results, expiry, inbox>>]_vars

\* A reader has read the hash of a writer whose batch committed and whose
\* publish is still to come, while the other writer's batch failed.
C9_Witness ==
    \E s, t \in Writers :
        /\ spc[s] = "publish" /\ spc[t] = "raised_execute"
        /\ rout[1] = srec[s][1].job_id
        /\ rout[2].kind = "return" /\ rout[2].val # None
        /\ expiry[srec[s][1].job_id] # None

\* The call of c has returned normally.
ReturnedOk(c) == cpc[c] = "done" /\ cout[c] = "ok"

\* No other call carries the job id of c's call.
UniqueId(c) ==
    \A d \in QClients \ {c} : cjob[d] # None => cjob[d][1].id # cjob[c][1].id

\* C11: a job enqueued through enqueue_scheduled with a due time set (the call
\* returned, no other call used its id) is read back by get_job with status
\* SCHEDULED.
C11_ScheduledReadsScheduled ==
    \A c \in QClients :
        (cop[c] = "enqueue_scheduled" /\ ReturnedOk(c) /\ UniqueId(c)) =>
            LET got == GetJob(cjob[c][1].id) IN
            /\ got.kind = "return" /\ got.val # None
            /\ got.val[1].status = "scheduled"

\* C12: the first write of enqueue_scheduled stores under the job key the same
\* encoding of the job that the first write of enqueue stores, and touches
\* nothing else; its second write makes the job id a member of the scheduled
\* set with its due time in epoch seconds as score, replacing the score of an
\* existing member, and touches no other member and no record.
C12_ScheduledRecordAndScore ==
    [][\A c \in QClients :
         /\ (cpc[c] = "idle" /\ cpc'[c] \in {"sched_zadd", "enq_push"}) =>
               /\ jobs' = [jobs EXCEPT ![cjob'[c][1].id] = Some(JobToDict(cjob'[c][1]))]
               /\ UNCHANGED <<queues, scheduled>>
         /\ (cpc[c] = "sched_zadd" /\ cpc'[c] = "done" /\ cout'[c] = "ok") =>
               /\ scheduled' = [scheduled EXCEPT ![cjob[c][1].id] = cjob[c][1].scheduled_for]
               /\ UNCHANGED <<jobs, queues>>]_vars

\* Two enqueue_scheduled calls for one id with different due times have
\* returned; the id is a member with the due time of one of them.
C12_Witness ==
    \E c, d \in QClients :
        /\ c # d
        /\ cop[c] = "enqueue_scheduled" /\ ReturnedOk(c)
        /\ cop[d] = "enqueue_scheduled" /\ ReturnedOk(d)
        /\ cjob[c][1].id = cjob[d][1].id
        /\ cjob[c][1].scheduled_for # cjob[d][1].scheduled_for
        /\ scheduled[cjob[c][1].id] = cjob[c][1].scheduled_for

C14_AppendsToTail ==
    [][\A c \in QClients :
         (cpc[c] = "enq_push" /\ cpc'[c] = "done" /\ cout'[c] = "ok") =>
            queues' = [queues EXCEPT ![cjob[c][1].priority] = Append(@, cjob[c][1].id)]]_vars

\* C14, amended: the second write of enqueue puts the job id at the head of
\* the list of the job's priority, before every id enqueued earlier, and
\* leaves the other lists alone; every enqueue pushes to that same end.
C14_PushesToHead ==
    [][\A c \in QClients :
         (cpc[c] = "enq_push" /\ cpc'[c] = "done" /\ cout'[c] = "ok") =>
            queues' = [queues EXCEPT ![cjob[c][1].priority] = <<cjob[c][1].id>> \o @]]_vars

\* Two enqueue calls for different ids at one priority have returned: the
\* list holds both ids.
C14_Witness ==
    \E c, d \in QClients :
        /\ c # d /\ ReturnedOk(c) /\ ReturnedOk(d)
        /\ cop[c] = "enqueue" /\ cop[d] = "enqueue"
        /\ cjob[c][1].priority = cjob[d][1].priority
        /\ cjob[c][1].id # cjob[d][1].id
        /\ queues[cjob[c][1].priority] = <<cjob[c][1].id, cjob[d][1].id>>

\* Nothing was ever written under the job key of id (job keys do not expire).
NeverWrittenJob(id) == jobs[id] = None

\* Nothing was ever written under the result key of id.
NeverWrittenResult(id) == lastSet[id] = None /\ results[id] = None

\* C15: on an id that was never written, whatever was written for other ids,
\* get_job and get_result return None; a call made on such an id has not
\* raised unless its store call itself failed.
C15_NeverWrittenReadsNone ==
    /\ \A id \in JobIds : NeverWrittenJob(id) => GetJob(id) = Outcome("return", None)
    /\ \A id \in ResultIds : NeverWrittenResult(id) => GetResult(id) = Outcome("return", None)
    /\ (jout[1] # None /\ NeverWrittenJob(jout[1][1]) /\ jout[2] # GetJobFailed)
          => jout[2] = Outcome("return", None)
    /\ (rout[2] # NoOutcome /\ NeverWrittenResult(rout[1]) /\ rout[2] # GetResultFailed)
          => rout[2] = Outcome("return", None)

\* Both readers got None for ids never written while other ids hold a job
\* record and a result hash.
C15_Witness ==
    /\ jout[1] # None /\ NeverWrittenJob(jout[1][1]) /\ jout[2] = Outcome("return", None)
    /\ rout[2] = Outcome("return", None) /\ NeverWrittenResult(rout[1])
    /\ \E id \in JobIds : jobs[id] # None
    /\ \E id \in ResultIds : results[id] # None

MalformedHash(h) ==
    \/ h.status = None
    \/ h.status # None /\ h.status[1] \notin JobStatus
    \/ h.completed_at # None /\ ~IsIso(h.completed_at[1])
    \/ h.duration_ms # None /\ ~IsDec(h.duration_ms[1])

\* C17: get_result on a stored hash that is malformed raises
\* ResultNotFoundError; it returns neither None nor a record.
C17_MalformedHashRaises ==
    \A id \in ResultIds :
        (results[id] # None /\ MalformedHash(results[id][1])) =>
            GetResult(id).kind = "ResultNotFoundError"

\* The value that a string holds once every JSON encoding around it, two at
\* most, is undone; text that is no JSON document is itself.
Structured(x) ==
    IF ~IsJson(x) THEN x
    ELSE IF IsJson(JsonLoads(x)) THEN JsonLoads(JsonLoads(x)) ELSE JsonLoads(x)

\* C18: get_result on a hash whose result field is a JSON document encoded
\* once or twice returns the structured value; a result field that is no
\* JSON document is returned as the raw string, without an error.
C18_NestedResultDecoded ==
    \A id \in ResultIds :
        (results[id] # None /\ Decodes(results[id][1]) /\ results[id][1].result # None) =>
            /\ GetResult(id).kind = "return"
            /\ GetResult(id).val # None
            /\ GetResult(id).val[1].result = Some(Structured(results[id][1].result[1]))

\* C19: a wait_for_result call that starts while the result of its job is
\* readable ends in its first step, whatever the timeout (zero and negative
\* included), barring a failure of the read itself: it returns that result,
\* has opened no subscription, has not entered the loop and has taken no time.
C19_ExistingReturnedAtOnce ==
    [][\A w \in Waiters :
         (wpc[w] = "idle" /\ wpc'[w] # "idle" /\ Readable(wid'[w][1]) /\ ~wfail'[w]) =>
            /\ wpc'[w] = "done"
            /\ wout'[w] = GetResult(wid'[w][1])
            /\ wsub'[w] = None /\ inbox'[w] = <<>>
            /\ wstart'[w] = None /\ wrecv'[w] = None
            /\ wend'[w] = wcall'[w]]_vars

\* A call with a timeout that is not positive has returned a result without
\* ever subscribing.
C19_Witness ==
    \E w \in Waiters :
        /\ wpc[w] = "done" /\ wtimeout[w] <= 0
        /\ wout[w].kind = "return" /\ wout[w].val # None
        /\ wstart[w] = None /\ wend[w] = wcall[w]

PublishedWhileSubscribed(w) ==
    \E s \in Writers :
        /\ sout[s] = "ok"
        /\ srec[s][1].job_id = wid[w][1]
        /\ wstart[w] # None
        /\ wstart[w][1] < sendAt[s][1]
        /\ sendAt[s][1] + PollInterval <= wstart[w][1] + wtimeout[w]

TTLElapsed(id) ==
    lastSet[id] # None /\ now >= lastSet[id][1].at + TTLTicks(lastSet[id][1].rec)

\* C21: from the tick at which the TTL applied by the last set_result for an
\* id has run out, and until another set_result for it commits, get_result
\* of the id returns None, and a wait_for_result call for it that ends then
\* returns no record.
C21_ExpiredUnreadable ==
    /\ [](\A id \in ResultIds : TTLElapsed(id) => GetResult(id) = Outcome("return", None))
    /\ [][\A w \in Waiters :
            (wpc[w] # "done" /\ wpc'[w] = "done" /\ TTLElapsed(wid'[w][1]))
                => wout'[w].val = None]_vars

\* A wait that started after the TTL had run out has returned None.
C21_Witness ==
    \E w \in Waiters :
        /\ wpc[w] = "done" /\ wout[w] = Outcome("return", None)
        /\ lastSet[wid[w][1]] # None
        /\ wcall[w][1] >= lastSet[wid[w][1]][1].at + TTLTicks(lastSet[wid[w][1]][1].rec)

\* The wait of w for id has timed out empty, and a set_result for id has
\* committed since.
SetAfterTimeout(w, id) ==
    /\ wpc[w] = "done" /\ wout[w] = Outcome("return", None) /\ wid[w] = Some(id)
    /\ lastSet[id] # None
    /\ lastSet[id][1].at >= wend[w][1]

\* C22: the step in which a wait returns empty leaves the result hashes and
\* their expiries as they are and its subscription released; once a
\* set_result for the id has committed after that, and until its TTL runs
\* out, get_result of the id returns the record, and a wait_for_result call
\* for the id that starts then returns it at once.
C22_TimedOutWaitLeavesNothing ==
    /\ [](\A w \in MultiWaiters, id \in MultiIds :
            (SetAfterTimeout(w, id) /\ ~TTLElapsed(id)) =>
                /\ Readable(id)
                /\ GetResult(id).val[1].status = lastSet[id][1].rec.status
                /\ GetResult(id).val[1].result = lastSet[id][1].rec.result)
    /\ [][/\ \A w \in MultiWaiters :
               ReturnsEmpty(w) => (UNCHANGED <<results, expiry>> /\ wsub'[w] = None)
          /\ \A w, x \in MultiWaiters, id \in MultiIds :
               (SetAfterTimeout(w, id) /\ ~TTLElapsed(id)
                  /\ wpc[x] = "idle" /\ wpc'[x] # "idle" /\ wid'[x] = Some(id)) =>
                    /\ wpc'[x] = "done"
                    /\ wout'[x] = GetResult(id)
                    /\ wout'[x].val # None]_vars

\* One wait timed out empty, set_result committed after that, and a second
\* wait for the id, started later still, has returned the record.
C22_Witness ==
    \E w, x \in MultiWaiters, id \in MultiIds :
        /\ w # x /\ SetAfterTimeout(w, id)
        /\ wend[w][1] > 0
        /\ wpc[x] = "done" /\ wid[x] = Some(id)
        /\ wcall[x][1] >= lastSet[id][1].at
        /\ wout[x].kind = "return" /\ wout[x].val # None

\* The calls that have ended.
QEnded(c) == cpc[c] = "done"

SEnded(s) == spc[s] \in {"done", "raised_execute", "raised_publish"}

WEnded(w) == wpc[w] = "done"

\* C23: a step issues at most one store call; the step in which a store call
\* of enqueue, enqueue_scheduled, set_result or wait_for_result fails ends
\* the call with the connection error and changes nothing in the store; a
\* call that has ended takes no further step (nothing is retried); the push
\* stage of enqueue and enqueue_scheduled is entered only by the step that
\* wrote the record; get_job and get_result are one store call each, whose
\* failure is the connection error.
C23_NoRetry ==
    [][/\ \A c \in QClients :
            /\ ccalls'[c] <= ccalls[c] + 1
            /\ (cout'[c] = "ConnectionError" /\ cout[c] # "ConnectionError") =>
                  /\ QEnded(c)'
                  /\ ccalls'[c] = ccalls[c] + 1
                  /\ UNCHANGED <<jobs, queues, scheduled, jexpire>>
            /\ QEnded(c) => UNCHANGED <<cpc[c], cout[c], ccalls[c], cjob[c]>>
            /\ (cpc[c] = "idle" /\ cpc'[c] \in {"enq_push", "sched_zadd"}) =>
                  jobs'[cjob'[c][1].id] = Some(JobToDict(cjob'[c][1]))
       /\ \A s \in Writers :
            /\ (sout'[s] = "ConnectionError" /\ sout[s] # "ConnectionError") =>
                  /\ SEnded(s)'
                  /\ UNCHANGED <<inbox, expiry>>
                  /\ spc[s] = "idle" => UNCHANGED results
            /\ SEnded(s) => UNCHANGED <<spc[s], sout[s], srec[s]>>
       /\ \A w \in Waiters :
            /\ (wfail'[w] /\ ~wfail[w]) =>
                  /\ WEnded(w)'
                  /\ wout'[w] = Outcome("ConnectionError", None)
                  /\ UNCHANGED <<results, expiry>>
            /\ WEnded(w) => UNCHANGED <<wpc[w], wout[w], wfail[w], wsub[w]>>
       /\ jout' # jout =>
            (jout'[2] \in {GetJob(jout'[1][1]), GetJobFailed} /\ UNCHANGED jobs)
       /\ rout' # rout =>
            (rout'[2] \in {GetResult(rout'[1]), GetResultFailed} /\ UNCHANGED results)]_vars

\* An enqueue whose SET failed ended after that one call with nothing stored
\* or pushed, a set_result failed at its publish, a wait failed inside its
\* loop and both readers got the connection error.
C23_Witness ==
    /\ \E c \in QClients :
          /\ cop[c] = "enqueue" /\ cout[c] = "ConnectionError" /\ ccalls[c] = 1
          /\ jobs[cjob[c][1].id] = None
          /\ \A p \in JobPriority : queues[p] = <<>>
    /\ \E s \in Writers : spc[s] = "raised_publish"
    /\ \E w \in Waiters : wfail[w] /\ wstart[w] # None /\ wend[w][1] > wcall[w][1]
    /\ jout[2] = GetJobFailed
    /\ rout[2] = GetResultFailed

\* C24: every job record in the store, whichever write operations of the
\* client and of the queue store wrote the records, has status PENDING or
\* SCHEDULED.
C24_WrittenPendingOrScheduled ==
    \A i \in JobIds :
        jobs[i] # None => jobs[i][1].status \in {"pending", "scheduled"}

\* C26: every job record written by enqueue or enqueue_scheduled has a
\* scheduled_for exactly when its status is SCHEDULED.
C26_ScheduledForIffScheduled ==
    \A i \in JobIds :
        jobs[i] # None =>
            (("scheduled_for" \in DOMAIN jobs[i][1]) <=> (jobs[i][1].status = "scheduled"))

\* The step is the record write of an enqueue or enqueue_scheduled call for
\* the job id i.
EnqueueWrites(i) ==
    \E c \in QClients : cpc[c] = "idle" /\ cpc'[c] # "idle" /\ cjob'[c][1].id = i

\* C25: a stored job record has no expiry, and every step of the layer other
\* than the record write of an enqueue or enqueue_scheduled call for the same
\* id (the pushes, get_job, set_result, get_result, every step of
\* wait_for_result, the enqueueing of other ids) leaves the record and its
\* absence of expiry as they are.
C25_JobKeyUntouched ==
    /\ [](\A i \in JobIds : jobs[i] # None => jexpire[i] = None)
    /\ [][\A i \in JobIds :
            (jobs[i] # None /\ ~EnqueueWrites(i)) =>
                (jobs'[i] = jobs[i] /\ jexpire'[i] = jexpire[i])]_vars

\* The record one caller wrote is still what it wrote after the other caller
\* enqueued another id and get_job, set_result, get_result and
\* wait_for_result have run.
C25_Witness ==
    \E c, d \in QClients :
        /\ ReturnedOk(c) /\ ReturnedOk(d)
        /\ cjob[c][1].id # cjob[d][1].id
        /\ jobs[cjob[c][1].id] = Some(JobToDict(cjob[c][1]))
        /\ jexpire[cjob[c][1].id] = None
        /\ jout[1] = Some(cjob[c][1].id) /\ jout[2].val # None
        /\ \E s \in Writers : sout[s] = "ok"
        /\ rout[2].kind = "return" /\ rout[2].val # None
        /\ \E w \in Waiters : wpc[w] = "done" /\ wout[w].val # None

\* C27: every stored result hash, all of them written by set_result, has
\* status COMPLETED or FAILED.
C27_ResultCompletedOrFailed ==
    \A id \in ResultIds :
        results[id] # None => results[id][1].status \in {Some("completed"), Some("failed")}

\* The number of published messages among the events of a connection.
MessageCount(q) == Cardinality({k \in 1..Len(q) : q[k].type = "message"})

\* The step is the successful PUBLISH of the set_result call of s.
Publishes(s) == spc[s] = "publish" /\ spc'[s] = "done"

\* C28: the PUBLISH step of a set_result call adds exactly one message, with
\* the status string of its record as payload, to the connections subscribed
\* to the channel of its own job id and nothing to the others; a set_result
\* call that has ended takes no further step; no other step of the layer
\* adds a message to any connection.
C28_OnePublishOwnChannel ==
    [][/\ \A s \in Writers :
            Publishes(s) =>
                \A w \in Waiters :
                    inbox'[w] =
                        IF wsub[w] = Some(srec[s][1].job_id)
                        THEN Append(inbox[w], [type |-> "message", data |-> srec[s][1].status])
                        ELSE inbox[w]
       /\ \A s \in Writers : SEnded(s) => spc'[s] = spc[s]
       /\ (~ \E s \in Writers : Publishes(s)) =>
            \A w \in Waiters : MessageCount(inbox'[w]) <= MessageCount(inbox[w])]_vars

\* set_result has published for one job id while a waiter was subscribed to
\* the channel of another: it holds no message.
C28_Witness ==
    \E s \in Writers, w \in Waiters :
        /\ sout[s] = "ok"
        /\ wsub[w] # None /\ wsub[w] # Some(srec[s][1].job_id)
        /\ wstart[w][1] < sendAt[s][1]
        /\ MessageCount(inbox[w]) = 0

\* C29: when the batch of set_result commits on a key that was absent, the
\* hash has status, completed_at and duration_ms, has the result field
\* exactly when the record's result is non-empty and the error field exactly
\* when its error is non-empty; and for a COMPLETED record without a result
\* get_result then returns a record with no result and is_success() true.
C29_HashFieldsOnFreshKey ==
    [][\A s \in Writers, id \in ResultIds :
         (spc[s] = "idle" /\ spc'[s] = "publish" /\ srec'[s][1].job_id = id
            /\ results[id] = None) =>
            LET r == srec'[s][1]
                h == results'[id][1]
                got == GetResult(id)' IN
            /\ h.status = Some(r.status)
            /\ h.completed_at # None
            /\ h.duration_ms # None
            /\ (h.result # None) <=> Truthy(r.result)
            /\ (h.error # None) <=> (r.error # "")
            /\ (r.status = "completed" /\ ~Truthy(r.result)) =>
                  /\ got.kind = "return" /\ got.val # None
                  /\ got.val[1].result = None
                  /\ IsSuccess(got.val[1])]_vars

\* A COMPLETED record whose result is the empty dict was written and read
\* back: the hash has neither result nor error, the record read has no result.
C29_Witness ==
    \E id \in ResultIds :
        /\ lastSet[id] # None
        /\ lastSet[id][1].rec.status = "completed"
        /\ lastSet[id][1].rec.result = Some(EmptyDict)
        /\ results[id] # None
        /\ results[id][1].result = None /\ results[id][1].error = None
        /\ rout[1] = id /\ rout[2] = GetResult(id)
        /\ rout[2].val # None /\ rout[2].val[1].result = None
        /\ IsSuccess(rout[2].val[1])

\* C30: while the hash last committed by set_result(r) is stored, get_result
\* of r.job_id returns, for a COMPLETED r with a non-empty result, a record
\* with the job id, status, result payload and duration_ms of r and
\* is_success() true, and for a FAILED r with an error a record with the
\* error of r and is_failed() true, whatever was written for the id before.
C30_RoundTrip ==
    \A id \in ResultIds :
        (lastSet[id] # None /\ results[id] # None) =>
            LET r == lastSet[id][1].rec
                got == GetResult(id) IN
            /\ (r.status = "completed" /\ Truthy(r.result)) =>
                  /\ got.kind = "return" /\ got.val # None
                  /\ got.val[1].job_id = r.job_id
                  /\ got.val[1].status = r.status
                  /\ got.val[1].result = r.result
                  /\ got.val[1].duration_ms = r.duration_ms
                  /\ IsSuccess(got.val[1])
            /\ (r.status = "failed" /\ r.error # "") =>
                  /\ got.kind = "return" /\ got.val # None
                  /\ got.val[1].job_id = r.job_id
                  /\ got.val[1].status = r.status
                  /\ got.val[1].error = r.error
                  /\ IsFailed(got.val[1])

\* A COMPLETED record with a result, committed with a duration of 1500 ms
\* over the hash of a FAILED record, has been read back with its payload.
C30_Witness ==
    \E id \in ResultIds :
        /\ lastSet[id] # None /\ results[id] # None
        /\ lastSet[id][1].rec.status = "completed"
        /\ Truthy(lastSet[id][1].rec.result)
        /\ lastSet[id][1].rec.duration_ms = 1500
        /\ results[id][1].error # None
        /\ rout[1] = id /\ rout[2] = GetResult(id)
        /\ rout[2].val # None
        /\ rout[2].val[1].result = lastSet[id][1].rec.result
        /\ rout[2].val[1].duration_ms = 1500

\* C31: decoding what to_dict / to_json returned for a Job, or what to_dict
\* returned for a JobResult, gives a value equal in all fields to the one
\* encoded, whatever the payload or result (empty and nested ones included).
C31_RoundTripEqual ==
    fout # None /\ fout[1] = "decoded" => fout[2] = fin[2]

\* A COMPLETED record with an empty result went through to_dict and
\* from_dict and came back without a result.
C31_EmptyResultLost ==
    /\ fout # None /\ fout[1] = "decoded" /\ fin[1] = "JobResult.dict"
    /\ fin[2].result = Some(EmptyDict)
    /\ fout[2].result = None

\* The step runs close() on the Client k, directly or through __exit__.
Closes(k) == kcloses'[k] = kcloses[k] + 1

\* C32: every close() of a Client, the first and the later ones, raises
\* nothing and leaves both connections closed; a later close() changes
\* neither connection; leaving a with block, normally or by an exception of
\* the body, leaves both connections closed.
C32_CloseIdempotent ==
    [][\A k \in Clients :
          /\ Closes(k) =>
                /\ qconn'[k] = "closed" /\ rconn'[k] = "closed"
                /\ kout'[k] = "ok"
          /\ Closes(k) /\ kcloses[k] >= 1 =>
                qconn'[k] = qconn[k] /\ rconn'[k] = rconn[k]
          /\ kpc[k] = "with" /\ kpc'[k] \in {"exited", "exited_raising"} =>
                qconn'[k] = "closed" /\ rconn'[k] = "closed"]_vars

\* One Client has been closed twice, another has left its with block by an
\* exception; the connections of both are closed.
C32_Witness ==
    \E k, m \in Clients :
        /\ kcloses[k] >= 2 /\ qconn[k] = "closed" /\ rconn[k] = "closed"
        /\ kpc[m] = "exited_raising" /\ kcloses[m] = 1
        /\ qconn[m] = "closed" /\ rconn[m] = "closed"

\* C40: when the construction of a Client has raised, its queue connection
\* is not open.
C40_QueueClosedOnFailure ==
    \A k \in Clients : kpc[k] = "raised" => qconn[k] # "open"

\* The construction of a Client raised at the result-store connection and
\* the queue connection it had opened is still open.
C40_QueueLeftOpen ==
    \E k \in Clients : kpc[k] = "raised" /\ qconn[k] = "open" /\ rconn[k] = "none"

\* The id holds no key separator.
NoSep(id) == \A n \in 1..Len(id) : id[n] # Sep

\* C33: under one prefix, for ids without the separator, no key of one kind
\* (job, priority list, scheduled set, result, notification channel) equals
\* a key of another kind, and the keys of one kind for two different ids
\* differ.
C33_KeysDisjoint ==
    fout # None /\ fout[1] = "keys" /\ NoSep(fin[3]) /\ NoSep(fin[4]) =>
        /\ \A k1, k2 \in KeyKinds : k1 # k2 => fout[2][k1] \cap fout[2][k2] = {}
        /\ fin[3] # fin[4] =>
              \A k \in {"job", "result", "notify"} : Cardinality(fout[2][k]) = 2

\* Keys were built for the ids "notify" and "scheduled", which spell words
\* of the key formats and hold no separator.
C33_Witness ==
    /\ fout # None /\ fout[1] = "keys"
    /\ fin[3] = <<"notify">> /\ fin[4] = <<"scheduled">>
    /\ ResultKey(fin[2], fin[3]) \in fout[2].result
    /\ JobKey(fin[2], fin[4]) \in fout[2].job

\* The wait of w is in progress and its deadline lies within the explored
\* time.
Waiting(w) ==
    /\ wpc[w] \notin {"idle", "done"}
    /\ wcall[w][1] + wtimeout[w] <= MaxTime

\* C34: a wait_for_result call in progress ends; a call never blocks in
\* get_message when its timeout is zero or negative, and such a call that
\* found no result at entry and met no store failure returns None.
C34_WaitTerminates ==
    /\ \A w \in Waiters : Waiting(w) ~> wpc[w] = "done"
    /\ [](\A w \in Waiters : wpc[w] = "recv" => wtimeout[w] > 0)
    /\ [](\A w \in Waiters :
             wpc[w] = "done" /\ wtimeout[w] <= 0 /\ wstart[w] # None /\ ~wfail[w] =>
                wout[w] = Outcome("return", None) /\ wend[w] = wcall[w])

\* A wait with the longest timeout ran to its deadline and returned None; no
\* store call of it failed.
C34_Witness ==
    \E w \in Waiters :
        /\ wpc[w] = "done" /\ wtimeout[w] = MaxTimeout /\ ~wfail[w]
        /\ wout[w] = Outcome("return", None)
        /\ wend[w] = Some(wstart[w][1] + MaxTimeout)

\* Whole ticks elapsed since the wait of w took its start_time.
Elapsed(w) == now - wstart[w][1]

\* The step is the one of w after get_message that compares the elapsed time
\* with the grace period.
GraceCheck(w) == wpc[w] = "grace" /\ wpc'[w] # "grace"

\* C35: in an iteration whose get_message brought no published message, the
\* get_result re-check follows when more than the grace period has elapsed
\* and the next iteration follows without a get_result when less has; the
\* other get_result of the loop follows a published message only, and an
\* iteration leads nowhere else.
C35_RecheckPastGrace ==
    [][\A w \in Waiters :
          /\ GraceCheck(w) /\ Elapsed(w) > GracePeriod => wpc'[w] = "recheck"
          /\ GraceCheck(w) /\ Elapsed(w) < GracePeriod => wpc'[w] = "loop"
          /\ wpc'[w] = "recheck" /\ wpc[w] # "recheck" => wpc[w] = "grace"
          /\ wpc'[w] = "fetch" /\ wpc[w] # "fetch" =>
                wpc[w] = "recv" /\ Head(inbox[w]).type = "message"
          /\ wpc[w] = "recv" /\ wpc'[w] # "recv" =>
                wpc'[w] \in {"fetch", "grace", "done"}]_vars

\* Past the grace period, a get_message that timed out without any event is
\* followed by the get_result re-check.
C35_Witness ==
    \E w \in Waiters :
        /\ wpc[w] = "recheck" /\ Elapsed(w) > GracePeriod
        /\ inbox[w] = <<>> /\ now >= wrecv[w][1] + PollInterval

\* How many times the id stands in the list of priority p.
InList(p, id) == Cardinality({k \in 1..Len(queues[p]) : queues[p][k] = id})

\* How many times the id stands in the three priority lists and the
\* scheduled set together.
Occurrences(id) ==
    InList("high", id) + InList("normal", id) + InList("low", id)
    + (IF scheduled[id] # None THEN 1 ELSE 0)

ClientSubmitOps ==
    {"submit_job", "submit_job_with_route", "submit_and_wait", "submit_job_scheduled"}

\* C36: the job id of every submit call of Client that completed its enqueue
\* stands exactly once in the priority lists and the scheduled set together:
\* in the list of its own priority when submitted for immediate execution,
\* in the scheduled set when submitted with a due time.
C36_SubmittedOnce ==
    \A c \in QClients :
        cop[c] \in ClientSubmitOps /\ ReturnedOk(c) =>
            LET job == cjob[c][1] IN
            /\ Occurrences(job.id) = 1
            /\ IF cop[c] = "submit_job_scheduled"
               THEN scheduled[job.id] # None
               ELSE InList(job.priority, job.id) = 1

\* A submit_job_scheduled call and a submit_job_with_route call of the same
\* priority have both completed.
C36_Witness ==
    \E c, d \in QClients :
        /\ cop[c] = "submit_job_scheduled" /\ ReturnedOk(c)
        /\ cop[d] = "submit_job_with_route" /\ ReturnedOk(d)
        /\ cjob[c][1].priority = cjob[d][1].priority
        /\ Occurrences(cjob[c][1].id) = 1 /\ Occurrences(cjob[d][1].id) = 1

\* The step ends the wait of w by returning a JobResult.
ReturnsResult(w) ==
    /\ wpc[w] # "done" /\ wpc'[w] = "done"
    /\ wout'[w].kind = "return" /\ wout'[w].val # None

\* The step commits the batch of a set_result call of s.
Commits(s) == spc[s] = "idle" /\ spc'[s] = "publish"

\* C37: a wait for id returns only the record that get_result reads from the
\* hash of id, labelled with id; a notification reaches a waiter only from
\* the publish of a set_result for its own id; the batch of a set_result for
\* another id changes neither the hash the waiter reads nor its events; and
\* a wait returns None before its deadline only after a notification.
C37_OwnIdOnly ==
    [][\A w \in Waiters :
          /\ ReturnsResult(w) =>
                \E id \in ResultIds :
                    /\ wid'[w] = Some(id)
                    /\ wout'[w] = GetResult(id)
                    /\ wout'[w].val[1].job_id = id
          /\ MessageCount(inbox'[w]) > MessageCount(inbox[w]) =>
                \E s \in Writers : Publishes(s) /\ Some(srec[s][1].job_id) = wid[w]
          /\ \A s \in Writers :
                Commits(s) /\ Some(srec'[s][1].job_id) # wid[w] /\ wid[w] # None =>
                    /\ results'[wid[w][1]] = results[wid[w][1]]
                    /\ inbox'[w] = inbox[w] /\ wpc'[w] = wpc[w] /\ wout'[w] = wout[w]
          /\ ReturnsEmpty(w) /\ wstart[w] # None /\ Elapsed(w) < wtimeout[w] =>
                wpc[w] = "fetch"]_vars

\* A set_result for another job id committed and published during a wait
\* that was subscribed; the wait ran to its deadline and returned None.
C37_Witness ==
    \E w \in Waiters, s \in Writers :
        /\ wpc[w] = "done" /\ wout[w] = Outcome("return", None) /\ ~wfail[w]
        /\ wstart[w] # None /\ wend[w] = Some(wstart[w][1] + wtimeout[w])
        /\ wtimeout[w] > GracePeriod
        /\ sout[s] = "ok" /\ Some(srec[s][1].job_id) # wid[w]
        /\ wstart[w][1] < sendAt[s][1] /\ sendAt[s][1] < wend[w][1]
        /\ results[srec[s][1].job_id] # None

\* The step is a get_message of w that returns the event at the head of its
\* connection, which is not a published message.
ReceivesOther(w) ==
    /\ wpc[w] = "recv" /\ wpc'[w] # "recv"
    /\ inbox[w] # <<>> /\ Head(inbox[w]).type # "message"
    /\ wsub'[w] = wsub[w]

\* C38: a get_message that returns an event other than a published message
\* (the subscribe confirmation) goes on to the grace comparison of the
\* iteration: the wait does not end and no get_result follows from it; the
\* get_result after get_message is reached through a published message only.
C38_OtherEventsIgnored ==
    [][\A w \in Waiters :
          /\ ReceivesOther(w) =>
                /\ wpc'[w] = "grace"
                /\ wout'[w] = wout[w] /\ wend'[w] = wend[w]
                /\ inbox'[w] = Tail(inbox[w])
          /\ wpc'[w] = "fetch" /\ wpc[w] # "fetch" =>
                inbox[w] # <<>> /\ Head(inbox[w]).type = "message"]_vars

\* The subscribe confirmation has been received, in the tick of the
\* subscription, and the wait goes on.
C38_Witness ==
    \E w \in Waiters :
        /\ wpc[w] = "grace" /\ inbox[w] = <<>>
        /\ wrecv[w] = wstart[w] /\ now = wstart[w][1]
        /\ wout[w] = NoOutcome

\* The set_result call of s raised at its publish and the hash it wrote has
\* not reached its expiry.
PublishFailed(s) ==
    /\ spc[s] = "raised_publish"
    /\ lastSet[srec[s][1].job_id] # None
    /\ lastSet[srec[s][1].job_id][1].rec = srec[s][1]
    /\ now < lastSet[srec[s][1].job_id][1].at + TTLTicks(srec[s][1])

\* C39: the failing publish of a set_result call raises ConnectionError and
\* leaves every hash, every expiry and every subscriber's events as they
\* were; until its expiry the hash is read by get_result as the record
\* written, and the re-check of a waiter for that id returns it.
C39_PublishFailureKeepsResult ==
    /\ [][\A s \in Writers :
             spc[s] = "publish" /\ spc'[s] = "raised_publish" =>
                /\ sout'[s] = "ConnectionError"
                /\ results' = results /\ expiry' = expiry /\ inbox' = inbox]_vars
    /\ [](\A s \in Writers :
             PublishFailed(s) =>
                /\ Readable(srec[s][1].job_id)
                /\ GetResult(srec[s][1].job_id).val[1].status = srec[s][1].status
                /\ expiry[srec[s][1].job_id] # None)
    /\ [][\A s \in Writers, w \in Waiters :
             /\ PublishFailed(s) /\ wid[w] = Some(srec[s][1].job_id)
             /\ wpc[w] = "recheck" /\ wpc'[w] # "recheck" /\ ~wfail'[w]
             => /\ wpc'[w] = "done"
                /\ wout'[w] = GetResult(srec[s][1].job_id)
                /\ wout'[w].val # None]_vars

\* A set_result call raised at its publish; a waiter for that id, subscribed
\* before the batch committed, got no notification and returned the result
\* from its re-check past the grace period.
C39_Witness ==
    \E s \in Writers, w \in Waiters :
        /\ PublishFailed(s) /\ sout[s] = "ConnectionError"
        /\ wid[w] = Some(srec[s][1].job_id)
        /\ wpc[w] = "done" /\ ~wfail[w]
        /\ wout[w].kind = "return" /\ wout[w].val # None
        /\ wstart[w] # None /\ wstart[w][1] <= lastSet[srec[s][1].job_id][1].at
        /\ wend[w][1] >= wstart[w][1] + GracePeriod

\* C10: enqueue_scheduled on a job whose scheduled_for is unset ends with the
\* validation error (not the connection error) having issued no store call,
\* and the step that raises it leaves the job records, the priority lists and
\* the scheduled set unchanged.
C10_ValidationBeforeStore ==
    /\ [](\A c \in QClients :
            (cop[c] = "enqueue_scheduled" /\ cjob[c][1].scheduled_for = None)
                => (cpc[c] = "done" /\ cout[c] = "ValueError" /\ ccalls[c] = 0))
    /\ [][\A c \in QClients :
            (cout'[c] = "ValueError" /\ cout[c] # "ValueError")
                => UNCHANGED <<jobs, queues, scheduled>>]_vars

\* The validation error was raised while the other caller had stored a job.
C10_Witness ==
    \E c, d \in QClients :
        /\ cop[c] = "enqueue_scheduled" /\ cjob[c][1].scheduled_for = None
        /\ cout[c] = "ValueError"
        /\ cout[d] = "ok"
        /\ jobs[cjob[c][1].id] # None

====
